---------------------------- MODULE Spec2Model ----------------------------
(***************************************************************************)
(* A model of the ADH Rigging Tools add-on (src/rigging_tools.py): its     *)
(* operators as actions over the part of the host scene they read and      *)
(* write, and the driver-expression helpers as loops over strings.         *)
(*                                                                         *)
(* Strings are sequences of one-character strings.  Every group of         *)
(* variables belongs to one family of operators; a specification moves one *)
(* group and leaves the others at their initial value.                     *)
(***************************************************************************)
EXTENDS Integers, Sequences, FiniteSets, TLC

VARIABLES
    \* ---- ADH_RapidPasteDriver and the host's modal-operator runtime
    rp_handler,     \* the operator is registered as a modal handler
    rp_timer,       \* self._timer: a timer is registered with the window manager
    rp_space,       \* self._space: the space recorded by invoke ("None" before)
    space_data,     \* context.space_data: the space the user is in
    rp_event,       \* type of the last event the host dispatched
    rp_events,      \* number of events delivered to modal() so far
    rp_pastes,      \* number of calls of bpy.ops.anim.paste_driver_button()
    rp_ret,         \* what invoke/modal returned last
    \* ---- ADH_CopyDriverSettings
    increment_dict, \* the class attribute increment_dict: a set of <<key, value>>
    dr_pc,          \* where the operator is: idle, generate, keyables, substitute, copied
    idx_str,        \* generate_increment_dict: increment_list_str
    gen_start_pos,  \* generate_increment_dict: start_pos
    gen_iters,      \* generate_increment_dict: iterations of the loop so far
    dict0,          \* increment_dict as it was when generate_increment_dict was called
    expression,     \* substitute_incremented: expression (the source driver's)
    multiplier,     \* substitute_incremented: multiplier (the driver_index)
    sub_start_pos,  \* substitute_incremented: start_pos
    match_index,    \* substitute_incremented: match_index
    newExpression,  \* substitute_incremented: newExpression
    sub_iters,      \* substitute_incremented: iterations of the loop so far
    dr_targets,     \* process_keyable_list: selected drivers after the first
    dr_invokes,     \* invocations of the operator so far
    \* ---- the host scene the object and mesh operators work on
    ob_type,        \* [object -> obj.type]
    ob_select,      \* the set of selected objects (context.selected_objects)
    active_object,  \* context.active_object, or NoObject
    ob_mode,        \* [object -> obj.mode]
    modifiers,      \* [object -> obj.modifiers, a sequence of modifier records]
    shape_keys,     \* [object -> names of obj.data.shape_keys.key_blocks, <<>> if none]
    vertex_groups,  \* [object -> obj.vertex_groups, a sequence of group records]
    vg_active,      \* [object -> obj.vertex_groups.active_index, -1 if none]
    vert_select,    \* [object -> the set of selected vertices of obj.data]
    vgroup_weight,  \* scene.tool_settings.vertex_group_weight, in tenths
    op_arg,         \* the properties or the event the last operator ran with
    op,             \* the operator that ran last
    op_ret,         \* what it returned, or the exception it raised
    \* ---- the part of the scene the rigging operators work on
    ob_name,        \* [object -> obj.name]
    ob_loc,         \* [object -> the translation of obj.matrix_world]
    bones,          \* [object -> the bones of an armature, a sequence of bone records]
    arm_layers,     \* [object -> armature.data.layers, the set of visible layers]
    lat_points,     \* [object -> lattice.data.points, a sequence of point records]
    vert_co,        \* [object -> [vertex -> its coordinates in the mesh]]
    cursor_location,\* scene.cursor_location
    key_drivers,    \* [object -> the animation data of obj.data.shape_keys]
    \* ---- the part of the scene the pose-mode operators work on
    active_bone,    \* [object -> armature.data.bones.active as an index, or NoBone]
    bone_groups,    \* [object -> obj.pose.bone_groups, a sequence of group records]
    bg_active,      \* [object -> index of obj.pose.bone_groups.active, 0 if none]
    pbone_group,    \* [object -> [bone -> index of pose bone's bone_group, 0 if none]]
    ob_data,        \* [object -> the mesh of obj.data: vertices, edges and faces]
    ob_layers,      \* [object -> obj.layers, the set of layers the object is on]
    ob_draw_type    \* [object -> obj.draw_type]

pasteVars == <<rp_handler, rp_timer, rp_space, space_data, rp_event,
               rp_events, rp_pastes, rp_ret>>

driverVars == <<increment_dict, dr_pc, idx_str, gen_start_pos, gen_iters, dict0,
                expression, multiplier, sub_start_pos, match_index,
                newExpression, sub_iters, dr_targets, dr_invokes>>

sceneVars == <<ob_type, ob_select, active_object, ob_mode, modifiers, shape_keys,
               vertex_groups, vg_active, vert_select, vgroup_weight, op_arg, op, op_ret>>

rigVars == <<ob_name, ob_loc, bones, arm_layers, lat_points, vert_co,
             cursor_location, key_drivers>>

poseVars == <<active_bone, bone_groups, bg_active, pbone_group, ob_data,
              ob_layers, ob_draw_type>>

vars == <<pasteVars, driverVars, sceneVars, rigVars, poseVars>>

None == "None"

\* None where an object is expected (objects are numbered from 1)
NoObject == 0

\* ADH_RapidPasteDriver not started, in a Properties editor.
PasteIdle ==
    /\ rp_handler = FALSE
    /\ rp_timer = FALSE
    /\ rp_space = None
    /\ space_data = "props_a"
    /\ rp_event = None
    /\ rp_events = 0
    /\ rp_pastes = 0
    /\ rp_ret = None

\* ADH_CopyDriverSettings before any invocation: the class attribute
\* increment_dict is the empty dict and no call is in progress.
DriverIdle ==
    /\ increment_dict = {}
    /\ dr_pc = "idle"
    /\ idx_str = <<>>
    /\ gen_start_pos = 0
    /\ gen_iters = 0
    /\ dict0 = {}
    /\ expression = <<>>
    /\ multiplier = 0
    /\ sub_start_pos = 0
    /\ match_index = 0
    /\ newExpression = <<>>
    /\ sub_iters = 0
    /\ dr_targets = 0
    /\ dr_invokes = 0


\* A scene without objects.
SceneIdle ==
    /\ ob_type = <<>>
    /\ ob_select = {}
    /\ active_object = NoObject
    /\ ob_mode = <<>>
    /\ modifiers = <<>>
    /\ shape_keys = <<>>
    /\ vertex_groups = <<>>
    /\ vg_active = <<>>
    /\ vert_select = <<>>
    /\ vgroup_weight = 10
    /\ op_arg = <<>>
    /\ op = None
    /\ op_ret = None

\* No armature, lattice or driver in the scene; the 3D cursor at the origin.
RigIdle ==
    /\ ob_name = <<>>
    /\ ob_loc = <<>>
    /\ bones = <<>>
    /\ arm_layers = <<>>
    /\ lat_points = <<>>
    /\ vert_co = <<>>
    /\ cursor_location = <<0, 0, 0>>
    /\ key_drivers = <<>>

\* No pose, bone group or mesh data in the scene.
PoseIdle ==
    /\ active_bone = <<>>
    /\ bone_groups = <<>>
    /\ bg_active = <<>>
    /\ pbone_group = <<>>
    /\ ob_data = <<>>
    /\ ob_layers = <<>>
    /\ ob_draw_type = <<>>

(***************************************************************************)
(*              Strings, int() and str(), and the two regexes              *)
(***************************************************************************)

DigitChars == <<"0", "1", "2", "3", "4", "5", "6", "7", "8", "9">>

\* \d of the regexes
IsDigit(c) == c \in {"0", "1", "2", "3", "4", "5", "6", "7", "8", "9"}

DigitVal(c) == (CHOOSE d \in 1..10 : DigitChars[d] = c) - 1

\* Python's s[a:b] for 0 <= a <= b <= len(s)
Slice(s, a, b) == SubSeq(s, a + 1, b)

\* Python's int(s) for a non-empty string of digits
RECURSIVE int(_)
int(s) ==
    IF s = <<>> THEN 0
    ELSE int(SubSeq(s, 1, Len(s) - 1)) * 10 + DigitVal(s[Len(s)])

RECURSIVE NatStr(_)
NatStr(n) ==
    IF n < 10 THEN <<DigitChars[n + 1]>>
    ELSE NatStr(n \div 10) \o <<DigitChars[(n % 10) + 1]>>

\* Python's str(n) for an integer n
str(n) == IF n < 0 THEN <<"-">> \o NatStr(-n) ELSE NatStr(n)

\* dict operations on a set of <<key, value>> pairs with distinct keys
DictKeys(d) == {p[1] : p \in d}

DictGet(d, k, default) ==
    IF k \in DictKeys(d) THEN (CHOOSE p \in d : p[1] = k)[2] ELSE default

DictSet(d, k, v) == {p \in d : p[1] # k} \cup {<<k, v>>}

\* The strings of at most n characters over chars
RECURSIVE StringsUpTo(_, _)
StringsUpTo(chars, n) ==
    IF n = 0 THEN {<<>>}
    ELSE LET shorter == StringsUpTo(chars, n - 1)
         IN  shorter \cup {Append(s, c) : s \in shorter, c \in chars}

\* k characters of s from position p (0-based) that are all digits / all non-digits
AllDigits(s, p, k) == \A i \in (p + 1)..(p + k) : IsDigit(s[i])

NoDigits(s, p, k) == \A i \in (p + 1)..(p + k) : ~IsDigit(s[i])

NoMatch == [start |-> -1, end |-> -1]

\* int_re = re.compile(r"\d+"); int_re.search(s, pos): the leftmost digit at or
\* after pos, extended greedily over the digits that follow it.
int_re_search(s, pos) ==
    LET starts == {i \in pos..(Len(s) - 1) : IsDigit(s[i + 1])}
    IN  IF starts = {} THEN NoMatch
        ELSE LET st == CHOOSE i \in starts : \A j \in starts : i <= j
                 n  == CHOOSE k \in 1..(Len(s) - st) :
                          /\ AllDigits(s, st, k)
                          /\ \A k2 \in (k + 1)..(Len(s) - st) : ~AllDigits(s, st, k2)
             IN  [start |-> st, end |-> st + n]

\* increment_dict_re = re.compile(r"(\d+)\D*([+-])\D*(\d+)\D*") matched at
\* position p: the repetition counts <<n1, n2, n3, n4, n5>> of its five
\* quantifiers under which the pattern matches s from p on.
increment_dict_re_matches_at(s, p) ==
    LET L == Len(s) IN
    UNION { UNION { UNION { UNION {
        { <<n1, n2, n3, n4, n5>> :
            n5 \in {k \in 0..(L - p - n1 - n2 - 1 - n3 - n4) :
                       NoDigits(s, p + n1 + n2 + 1 + n3 + n4, k)} } :
        n4 \in {k \in 1..(L - p - n1 - n2 - 1 - n3) :
                   AllDigits(s, p + n1 + n2 + 1 + n3, k)} } :
        n3 \in {k \in 0..(L - p - n1 - n2 - 1) :
                   NoDigits(s, p + n1 + n2 + 1, k)} } :
        n2 \in {k \in 0..(L - p - n1 - 1) :
                   /\ NoDigits(s, p + n1, k)
                   /\ s[p + n1 + k + 1] \in {"+", "-"}} } :
        n1 \in {k \in 1..(L - p) : AllDigits(s, p, k)} }

\* t comes before u in the order a backtracking matcher tries greedy
\* quantifiers: longest first, from the leftmost quantifier on.
RECURSIVE TriedBefore(_, _, _)
TriedBefore(t, u, i) ==
    IF i > Len(t) THEN TRUE
    ELSE IF t[i] # u[i] THEN t[i] > u[i]
    ELSE TriedBefore(t, u, i + 1)

\* increment_dict_re.search(s, pos): the positions are tried from pos on, and at
\* the first one with a match the first match the backtracking finds is taken;
\* group1, sign, group3 are match_obj.group(1), group(2), group(3).
RECURSIVE increment_dict_re_search(_, _)
increment_dict_re_search(s, pos) ==
    IF pos >= Len(s) THEN NoMatch
    ELSE LET ms == increment_dict_re_matches_at(s, pos) IN
         IF ms = {} THEN increment_dict_re_search(s, pos + 1)
         ELSE LET st == pos
                  t  == CHOOSE m \in ms : \A u \in ms : TriedBefore(m, u, 1)
             IN  [start  |-> st,
                  end    |-> st + t[1] + t[2] + 1 + t[3] + t[4] + t[5],
                  group1 |-> Slice(s, st, st + t[1]),
                  sign   |-> s[st + t[1] + t[2] + 1],
                  group3 |-> Slice(s, st + t[1] + t[2] + 1 + t[3],
                                   st + t[1] + t[2] + 1 + t[3] + t[4])]

(***************************************************************************)
(*                        ADH_RapidPasteDriver                             *)
(***************************************************************************)

\* Bound: events delivered to one run of the model.
MaxEvents == 4

\* The spaces of the screen and the type of each.
Spaces == {"props_a", "props_b", "view3d"}

SpaceType(s) == IF s \in {"props_a", "props_b"} THEN "PROPERTIES" ELSE "VIEW_3D"

EventTypes == {"TIMER", "ESC", "MOUSEMOVE"}

PasteInit ==
    /\ rp_handler = FALSE
    /\ rp_timer = FALSE
    /\ rp_space = None
    /\ space_data \in Spaces
    /\ rp_event = None
    /\ rp_events = 0
    /\ rp_pastes = 0
    /\ rp_ret = None

\* ADH_RapidPasteDriver.poll
RapidPasteDriver_poll == SpaceType(space_data) = "PROPERTIES"

\* ADH_RapidPasteDriver.invoke: the host runs it when poll holds; the operator
\* becomes a modal handler, a timer is added and the space is recorded.
RapidPasteDriver_invoke ==
    /\ ~rp_handler
    /\ RapidPasteDriver_poll
    /\ rp_handler' = TRUE
    /\ rp_timer' = TRUE
    /\ rp_space' = space_data
    /\ rp_ret' = "RUNNING_MODAL"
    /\ UNCHANGED <<space_data, rp_event, rp_events, rp_pastes>>
    /\ UNCHANGED <<driverVars, sceneVars, rigVars, poseVars>>

\* A variant of modal that looks at the event type before the exit test.
modal_timer_first(ev) ==
    IF ev = "TIMER"
    THEN /\ rp_pastes' = rp_pastes + 1
         /\ rp_ret' = "PASS_THROUGH"
         /\ UNCHANGED <<rp_handler, rp_timer>>
    ELSE IF ev = "ESC" \/ space_data # rp_space
    THEN /\ rp_timer' = FALSE
         /\ rp_ret' = "FINISHED"
         /\ rp_handler' = FALSE
         /\ UNCHANGED rp_pastes
    ELSE /\ rp_ret' = "PASS_THROUGH"
         /\ UNCHANGED <<rp_handler, rp_timer, rp_pastes>>

\* ADH_RapidPasteDriver.modal on an event of type ev.  Returning FINISHED makes
\* the host drop the modal handler.
modal(ev) ==
    IF ev = "ESC" \/ space_data # rp_space
    THEN /\ rp_timer' = FALSE
         /\ rp_ret' = "FINISHED"
         /\ rp_handler' = FALSE
         /\ UNCHANGED rp_pastes
    ELSE IF ev = "TIMER"
    THEN /\ rp_pastes' = rp_pastes + 1
         /\ rp_ret' = "PASS_THROUGH"
         /\ UNCHANGED <<rp_handler, rp_timer>>
    ELSE /\ rp_ret' = "PASS_THROUGH"
         /\ UNCHANGED <<rp_handler, rp_timer, rp_pastes>>

\* The host delivers an event to the running modal operator.
RapidPasteDriver_modal ==
    /\ rp_handler
    /\ rp_events < MaxEvents
    /\ \E ev \in EventTypes :
          /\ rp_event' = ev
          /\ modal(ev)
    /\ rp_events' = rp_events + 1
    /\ UNCHANGED <<rp_space, space_data>>
    /\ UNCHANGED <<driverVars, sceneVars, rigVars, poseVars>>

\* An event that arrives while the operator is not running goes elsewhere.
HostEventElsewhere ==
    /\ ~rp_handler
    /\ \E ev \in EventTypes : rp_event' = ev
    /\ UNCHANGED <<rp_handler, rp_timer, rp_space, space_data, rp_events,
                   rp_pastes, rp_ret>>
    /\ UNCHANGED <<driverVars, sceneVars, rigVars, poseVars>>

\* The user moves to another editor: context.space_data changes.
HostChangeSpace ==
    /\ \E s \in Spaces \ {space_data} : space_data' = s
    /\ UNCHANGED <<rp_handler, rp_timer, rp_space, rp_event, rp_events,
                   rp_pastes, rp_ret>>
    /\ UNCHANGED <<driverVars, sceneVars, rigVars, poseVars>>

PasteNext ==
    \/ RapidPasteDriver_invoke
    \/ RapidPasteDriver_modal
    \/ HostEventElsewhere
    \/ HostChangeSpace

SpecPasteInit == PasteInit /\ DriverIdle /\ SceneIdle /\ RigIdle /\ PoseIdle

SpecPaste == SpecPasteInit /\ [][PasteNext]_vars

\* C1: once invoke has started the modal operator, a TIMER event delivered while
\* the space is the recorded one makes exactly one paste and returns
\* PASS_THROUGH; an ESC event, or any event delivered after the space changed,
\* ends the operator with FINISHED without a paste; and a paste happens in no
\* other step, so none happens once the operator has finished.
C1_ModalContract ==
    [][ /\ (rp_events' = rp_events + 1) =>
              IF rp_event' # "ESC" /\ space_data = rp_space
              THEN /\ rp_handler' /\ rp_ret' = "PASS_THROUGH"
                   /\ rp_pastes' = rp_pastes + (IF rp_event' = "TIMER" THEN 1 ELSE 0)
              ELSE /\ ~rp_handler' /\ ~rp_timer' /\ rp_ret' = "FINISHED"
                   /\ rp_pastes' = rp_pastes
        /\ (rp_pastes' # rp_pastes) =>
              /\ rp_handler /\ rp_events' = rp_events + 1
              /\ rp_event' = "TIMER" /\ space_data = rp_space
      ]_vars

\* C1 witness: the operator pasted twice and was then ended by an event.
C1_Witness ==
    /\ rp_ret = "FINISHED" /\ ~rp_handler /\ rp_pastes >= 2

(***************************************************************************)
(*                        ADH_CopyDriverSettings                           *)
(***************************************************************************)

\* Bounds: length of the index strings of SpecIncrement and of SpecDriver, length
\* of the driver expressions, target drivers per invocation, invocations.
MaxIdxLen == 7
MaxShortIdxLen == 3
MaxExprLen == 3
MaxTargets == 2
MaxInvokes == 2

\* The values props.driver_increment_index takes in SpecIncrement
IdxStrings == StringsUpTo({"1", "+", "-", ","}, MaxIdxLen)

\* The values props.driver_increment_index takes in SpecDriver
ShortIdxStrings == StringsUpTo({"1", "2", "+", "-"}, MaxShortIdxLen)

\* The values the source driver's expression takes
Expressions == StringsUpTo({"0", "9", "a"}, MaxExprLen)

\* A variant of the sign handling that negates on '+'.
SignedIncrement_swapped(sign, n) == IF sign = "+" THEN n * (-1) ELSE n

\* generate_increment_dict, lines 1257-1259: the increment with its sign
SignedIncrement(sign, n) == IF sign = "-" THEN n * (-1) ELSE n

\* ADH_CopyDriverSettings.invoke up to its call of generate_increment_dict
\* with props.driver_increment_index
CopyDriverSettings_invoke(strings) ==
    /\ dr_pc = "idle"
    /\ dr_invokes < MaxInvokes
    /\ dr_invokes' = dr_invokes + 1
    /\ \E x \in strings : idx_str' = x
    /\ gen_start_pos' = 0
    /\ gen_iters' = 0
    /\ dict0' = increment_dict
    /\ dr_pc' = "generate"
    /\ UNCHANGED <<increment_dict, expression, multiplier, sub_start_pos,
                   match_index, newExpression, sub_iters, dr_targets>>
    /\ UNCHANGED <<pasteVars, sceneVars, rigVars, poseVars>>

\* One iteration of the loop of generate_increment_dict
generate_increment_dict_iter ==
    /\ dr_pc = "generate"
    /\ gen_iters' = gen_iters + 1
    /\ LET match_obj == increment_dict_re_search(idx_str, gen_start_pos)
       IN  IF match_obj = NoMatch
           THEN /\ dr_pc' = "keyables"
                /\ UNCHANGED <<increment_dict, gen_start_pos>>
           ELSE LET key == int(match_obj.group1)
                    increment == SignedIncrement(match_obj.sign, int(match_obj.group3))
                IN  /\ increment_dict' = DictSet(increment_dict, key, increment)
                    /\ gen_start_pos' = match_obj.end
                    /\ UNCHANGED dr_pc
    /\ UNCHANGED <<idx_str, dict0, expression, multiplier, sub_start_pos,
                   match_index, newExpression, sub_iters, dr_targets, dr_invokes>>
    /\ UNCHANGED <<pasteVars, sceneVars, rigVars, poseVars>>

\* process_keyable_list: the first selected driver is the source; each later
\* one gets copy_driver_variables with index 1, 2, ...  With no later one the
\* operator is done.
process_keyable_list ==
    /\ dr_pc = "keyables"
    /\ \E e \in Expressions, n \in 0..MaxTargets :
          /\ expression' = IF n = 0 THEN <<>> ELSE e
          /\ dr_targets' = n
          /\ dr_pc' = IF n = 0 THEN "idle" ELSE "substitute"
          /\ multiplier' = IF n = 0 THEN 0 ELSE 1
          /\ match_index' = IF n = 0 THEN 0 ELSE 1
    /\ idx_str' = <<>>
    /\ gen_start_pos' = 0
    /\ gen_iters' = 0
    /\ dict0' = {}
    /\ sub_start_pos' = 0
    /\ newExpression' = <<>>
    /\ sub_iters' = 0
    /\ UNCHANGED <<increment_dict, dr_invokes>>
    /\ UNCHANGED <<pasteVars, sceneVars, rigVars, poseVars>>

\* A variant of the loop body that never advances match_index.
substitute_body_no_count(match_obj) ==
    LET value == int(Slice(expression, match_obj.start, match_obj.end))
                 + (DictGet(increment_dict, match_index, 0) * multiplier)
    IN  /\ newExpression' = newExpression
                            \o Slice(expression, sub_start_pos, match_obj.start)
                            \o str(value)
        /\ match_index' = match_index
        /\ sub_start_pos' = match_obj.end

\* A variant of the loop body that resumes the search where the match began.
substitute_body_no_advance(match_obj) ==
    LET value == int(Slice(expression, match_obj.start, match_obj.end))
                 + (DictGet(increment_dict, match_index, 0) * multiplier)
    IN  /\ newExpression' = newExpression
                            \o Slice(expression, sub_start_pos, match_obj.start)
                            \o str(value)
        /\ match_index' = match_index + 1
        /\ sub_start_pos' = match_obj.start

\* substitute_incremented, lines 1313-1319: the loop body on a match
substitute_body(match_obj) ==
    LET value == int(Slice(expression, match_obj.start, match_obj.end))
                 + (DictGet(increment_dict, match_index, 0) * multiplier)
    IN  /\ newExpression' = newExpression
                            \o Slice(expression, sub_start_pos, match_obj.start)
                            \o str(value)
        /\ match_index' = match_index + 1
        /\ sub_start_pos' = match_obj.end

\* One iteration of the loop of substitute_incremented
substitute_incremented_iter ==
    /\ dr_pc = "substitute"
    /\ sub_iters' = sub_iters + 1
    /\ LET match_obj == int_re_search(expression, sub_start_pos)
       IN  IF match_obj = NoMatch
           THEN /\ newExpression' = newExpression
                                    \o Slice(expression, sub_start_pos, Len(expression))
                /\ dr_pc' = "copied"
                /\ UNCHANGED <<match_index, sub_start_pos>>
           ELSE /\ substitute_body(match_obj)
                /\ UNCHANGED dr_pc
    /\ UNCHANGED <<increment_dict, idx_str, gen_start_pos, gen_iters, dict0,
                   expression, multiplier, dr_targets, dr_invokes>>
    /\ UNCHANGED <<pasteVars, sceneVars, rigVars, poseVars>>

\* substitute_incremented has returned newExpression to copy_driver_variables,
\* which stores it in the target driver; process_keyable_list goes on with the
\* next selected driver and index + 1, or the operator is done.
process_keyable_list_next ==
    /\ dr_pc = "copied"
    /\ IF multiplier < dr_targets
       THEN /\ multiplier' = multiplier + 1
            /\ dr_pc' = "substitute"
            /\ match_index' = 1
            /\ UNCHANGED <<expression, dr_targets>>
       ELSE /\ multiplier' = 0
            /\ dr_pc' = "idle"
            /\ match_index' = 0
            /\ expression' = <<>>
            /\ dr_targets' = 0
    /\ sub_start_pos' = 0
    /\ newExpression' = <<>>
    /\ sub_iters' = 0
    /\ UNCHANGED <<increment_dict, idx_str, gen_start_pos, gen_iters, dict0,
                   dr_invokes>>
    /\ UNCHANGED <<pasteVars, sceneVars, rigVars, poseVars>>

\* Only generate_increment_dict, on index strings long enough for two items;
\* increment_dict starts as an earlier invocation can have left it.
IncrementInit ==
    /\ increment_dict \in {{}, {<<1, 11>>, <<111, -1>>}}
    /\ dr_pc = "idle"
    /\ idx_str = <<>>
    /\ gen_start_pos = 0
    /\ gen_iters = 0
    /\ dict0 = {}
    /\ expression = <<>>
    /\ multiplier = 0
    /\ sub_start_pos = 0
    /\ match_index = 0
    /\ newExpression = <<>>
    /\ sub_iters = 0
    /\ dr_targets = 0
    /\ dr_invokes = MaxInvokes - 1

IncrementNext ==
    \/ CopyDriverSettings_invoke(IdxStrings)
    \/ generate_increment_dict_iter

SpecIncrementInit == PasteIdle /\ IncrementInit /\ SceneIdle /\ RigIdle /\ PoseIdle

SpecIncrement == SpecIncrementInit /\ [][IncrementNext]_vars

DriverNext ==
    \/ CopyDriverSettings_invoke(ShortIdxStrings)
    \/ generate_increment_dict_iter
    \/ process_keyable_list
    \/ substitute_incremented_iter
    \/ process_keyable_list_next

SpecDriverInit == PasteIdle /\ DriverIdle /\ SceneIdle /\ RigIdle /\ PoseIdle

SpecDriver == SpecDriverInit /\ [][DriverNext]_vars


(***************************************************************************)
(*     What the two helpers are said to compute, stated on digit runs      *)
(***************************************************************************)

SameKind(c, d) == IsDigit(c) <=> IsDigit(d)

\* The maximal runs of digits and of non-digits of s, left to right
RECURSIVE Runs(_)
Runs(s) ==
    IF s = <<>> THEN <<>>
    ELSE LET k == CHOOSE n \in 1..Len(s) :
                     /\ \A i \in 1..n : SameKind(s[i], s[1])
                     /\ (n < Len(s) => ~SameKind(s[n + 1], s[1]))
         IN  <<SubSeq(s, 1, k)>> \o Runs(SubSeq(s, k + 1, Len(s)))

IsDigitRun(r) == IsDigit(r[1])

IsSign(c) == c \in {"+", "-"}

\* The runs from the i-th on, the k-th digit run replaced by the decimal
\* rendering of its value plus d.get(k, 0) * mult, the other runs kept.
RECURSIVE ReplacedRuns(_, _, _, _, _)
ReplacedRuns(runs, i, k, d, mult) ==
    IF i > Len(runs) THEN <<>>
    ELSE IF IsDigitRun(runs[i])
    THEN str(int(runs[i]) + DictGet(d, k, 0) * mult)
         \o ReplacedRuns(runs, i + 1, k + 1, d, mult)
    ELSE runs[i] \o ReplacedRuns(runs, i + 1, k, d, mult)

\* C2: substitute_incremented(expression, multiplier) returns the expression with
\* its k-th maximal digit run (k = 1, 2, ... from the left) replaced by the
\* decimal rendering of int(run) + increment_dict.get(k, 0) * multiplier, and
\* the text before, between and after the digit runs unchanged and in order.
C2_SubstituteIncremented ==
    dr_pc = "copied" =>
        newExpression
            = ReplacedRuns(Runs(expression), 1, 1, increment_dict, multiplier)

\* C2 witness: a call with multiplier 2 that replaced two digit runs, both with
\* a non-zero increment, and returned a longer string.
C2_Witness ==
    /\ dr_pc = "copied" /\ multiplier = 2 /\ match_index = 3
    /\ DictGet(increment_dict, 1, 0) # 0 /\ DictGet(increment_dict, 2, 0) # 0
    /\ Len(newExpression) > Len(expression)

\* An index string made of items K+N or K-N separated by non-digit characters:
\* its runs are K, sign, N, separator, K, sign, N, ...
WellFormedIndex(s) ==
    LET runs == Runs(s) IN
    /\ Len(runs) % 4 = 3
    /\ \A i \in 1..Len(runs) :
          /\ (i % 4 \in {1, 3}) => IsDigitRun(runs[i])
          /\ (i % 4 = 2) => (Len(runs[i]) = 1 /\ IsSign(runs[i][1]))
          /\ (i % 4 = 0) => ~IsDigitRun(runs[i])

\* The entries of the items from the j-th on (j = 0, 1, ...) put into d in order
RECURSIVE ItemsInto(_, _, _)
ItemsInto(runs, j, d) ==
    IF 4 * j + 3 > Len(runs) THEN d
    ELSE LET K == int(runs[4 * j + 1])
             N == int(runs[4 * j + 3])
         IN  ItemsInto(runs, j + 1,
                       DictSet(d, K, IF runs[4 * j + 2] = <<"+">> THEN N ELSE 0 - N))

\* s holds no item K+N or K-N: no digit has a sign right after it
NoItem(s) ==
    ~ \E i \in 1..(Len(s) - 1) : IsDigit(s[i]) /\ IsSign(s[i + 1])

\* C3 as stated: on an index string made of items K+N / K-N separated by
\* non-digit characters increment_dict[K] is set to +N / -N item by item, a later
\* item overriding an earlier one; a string with no such item adds no entry.
C3_AsStated ==
    dr_pc = "keyables" =>
        /\ WellFormedIndex(idx_str) =>
              increment_dict = ItemsInto(Runs(idx_str), 0, dict0)
        /\ NoItem(idx_str) => increment_dict = dict0

\* What the regex takes for an item: a digit run K, a run of non-digits that
\* holds a sign, a digit run N; the sign is the last one before N.
LastSign(r) ==
    r[CHOOSE i \in 1..Len(r) :
          IsSign(r[i]) /\ \A j \in (i + 1)..Len(r) : ~IsSign(r[j])]

HasSign(r) == \E i \in 1..Len(r) : IsSign(r[i])

LooseItemAt(runs, i) ==
    /\ i + 2 <= Len(runs)
    /\ IsDigitRun(runs[i])
    /\ HasSign(runs[i + 1])

\* The entries of the loose items found from the i-th run on, put into d in
\* order; the N of one item is not the K of the next.
RECURSIVE LooseItemsInto(_, _, _)
LooseItemsInto(runs, i, d) ==
    IF i > Len(runs) THEN d
    ELSE IF LooseItemAt(runs, i)
    THEN LET N == int(runs[i + 2])
         IN  LooseItemsInto(runs, i + 3,
                 DictSet(d, int(runs[i]),
                         IF LastSign(runs[i + 1]) = "+" THEN N ELSE 0 - N))
    ELSE LooseItemsInto(runs, i + 1, d)

NoLooseItem(s) == ~ \E i \in 1..Len(Runs(s)) : LooseItemAt(Runs(s), i)

\* C3 amended: as stated for the strings made of K+N / K-N items; in general an
\* item is a digit run, non-digits holding a sign, a digit run (the last sign
\* counts), and only a string without such an item adds no entry.
C3_GenerateIncrementDict ==
    dr_pc = "keyables" =>
        /\ WellFormedIndex(idx_str) =>
              increment_dict = ItemsInto(Runs(idx_str), 0, dict0)
        /\ increment_dict = LooseItemsInto(Runs(idx_str), 1, dict0)
        /\ NoLooseItem(idx_str) => increment_dict = dict0

\* C3 witness: two items for the same key, the later one overriding.
C3_Witness ==
    /\ dr_pc = "keyables"
    /\ idx_str = <<"1", "+", "1", ",", "1", "-", "1">>
    /\ dict0 = {<<1, 11>>, <<111, -1>>}
    /\ increment_dict = {<<1, -1>>, <<111, -1>>}

(***************************************************************************)
(*                    The host scene: common definitions                   *)
(***************************************************************************)

Objects == DOMAIN ob_type

\* The elements of a set of numbers in increasing order
RECURSIVE SortedSeq(_)
SortedSeq(S) ==
    IF S = {} THEN <<>>
    ELSE LET x == CHOOSE y \in S : \A z \in S : y <= z
         IN  <<x>> \o SortedSeq(S \ {x})

\* context.selected_objects, in scene order
selected_objects == SortedSeq(ob_select)

\* context.mode, which follows the active object's mode
context_mode ==
    IF active_object = NoObject \/ ob_mode[active_object] = "OBJECT" THEN "OBJECT"
    ELSE IF ob_mode[active_object] = "POSE" THEN "POSE"
    ELSE CASE ob_type[active_object] = "MESH" -> "EDIT_MESH"
           [] ob_type[active_object] = "ARMATURE" -> "EDIT_ARMATURE"
           [] OTHER -> "EDIT_LATTICE"

\* s without its i-th element
RemoveAt(s, i) == SubSeq(s, 1, i - 1) \o SubSeq(s, i + 1, Len(s))

\* Names the host keeps unique within a collection are a base and a number:
\* <<"Lattice", 0>> is "Lattice", <<"Lattice", 1>> is "Lattice.001".
Names(coll) == {coll[i].name : i \in 1..Len(coll)}

\* The empty name
NoName == <<"", 0>>

UniqueName(base, used) ==
    <<base, CHOOSE n \in 0..Cardinality(used) :
                /\ <<base, n>> \notin used
                /\ \A k \in 0..(n - 1) : <<base, k>> \in used>>

\* collection.get(name): the index of the element of that name, 0 if none
IndexOf(coll, name) ==
    IF name \in Names(coll) THEN CHOOSE i \in 1..Len(coll) : coll[i].name = name
    ELSE 0

\* obj.modifiers.new(name, type) and the fields of the new modifier
modifiers_new(stack, base, type) ==
    Append(stack, [name |-> UniqueName(base, Names(stack)), type |-> type,
                   show_viewport |-> TRUE, show_expanded |-> TRUE,
                   show_render |-> TRUE, vertex_group |-> NoName,
                   object |-> NoObject, subtarget |-> <<>>, vertex_indices |-> {}])

HasType(stack, type) == \E i \in 1..Len(stack) : stack[i].type = type

(***************************************************************************)
(*          ADH_AddSubdivisionSurfaceModifier and ADH_ApplyLattices        *)
(***************************************************************************)

\* Bounds: objects of the scene, modifiers on the first object at the start.
NumObjects == 2
MaxMods == 3

\* ADH_AddSubdivisionSurfaceModifier.poll
AddSubdivisionSurfaceModifier_poll ==
    context_mode = "OBJECT" /\ selected_objects # <<>>

\* A variant of AddSubsurf_stack that adds a modifier whatever the stack holds.
AddSubsurf_stack_always(stack, show_viewport) ==
    LET added == modifiers_new(stack, "Subsurf", "SUBSURF")
    IN  [added EXCEPT ![Len(added)].show_viewport = show_viewport,
                      ![Len(added)].show_expanded = FALSE]

\* ADH_AddSubdivisionSurfaceModifier.execute, lines 104-112: the stack of one
\* selected mesh afterwards
AddSubsurf_stack(stack, show_viewport) ==
    IF ~HasType(stack, "SUBSURF")
    THEN LET added == modifiers_new(stack, "Subsurf", "SUBSURF")
         IN  [added EXCEPT ![Len(added)].show_viewport = show_viewport,
                           ![Len(added)].show_expanded = FALSE]
    ELSE [i \in 1..Len(stack) |->
             IF stack[i].type = "SUBSURF"
             THEN [stack[i] EXCEPT !.show_viewport = show_viewport,
                                   !.show_expanded = FALSE]
             ELSE stack[i]]

\* ADH_AddSubdivisionSurfaceModifier.execute
AddSubdivisionSurfaceModifier_execute ==
    /\ AddSubdivisionSurfaceModifier_poll
    /\ \E show_viewport \in BOOLEAN :
          /\ modifiers' = [o \in Objects |->
                              IF o \in ob_select /\ ob_type[o] = "MESH"
                              THEN AddSubsurf_stack(modifiers[o], show_viewport)
                              ELSE modifiers[o]]
          /\ op_arg' = <<show_viewport>>
    /\ op' = "add_subsurf_modifier"
    /\ op_ret' = "FINISHED"
    /\ UNCHANGED <<ob_type, ob_select, active_object, ob_mode, shape_keys,
                   vertex_groups, vg_active, vert_select, vgroup_weight>>
    /\ UNCHANGED <<pasteVars, driverVars, rigVars, poseVars>>

\* ADH_ApplyLattices.poll
ApplyLattices_poll ==
    /\ context_mode = "OBJECT"
    /\ selected_objects # <<>>
    /\ active_object # NoObject
    /\ ob_type[active_object] = "MESH"

\* ADH_ApplyLattices.execute, lines 131-133: the key blocks are removed one by
\* one, the last first (i is the loop variable).
RECURSIVE shape_keys_removed(_, _)
shape_keys_removed(keys, i) ==
    IF i <= 0 THEN keys
    ELSE shape_keys_removed(RemoveAt(keys, i), i - 1)

\* Where the iteration "for m in obj.modifiers" may go on after the body has
\* applied, and so removed from the collection, the modifier at position i: the
\* iterator still refers to the removed element, and what it reads from it is
\* not defined.  It can reach the old successor (now at i), an element after
\* it, or the end.
NextAfterRemoval(stack, i) == i..(Len(stack) + 1)

\* ADH_ApplyLattices.execute, lines 134-136: the stacks the loop can leave,
\* the iteration being at position i of stack
RECURSIVE apply_lattices_from(_, _)
apply_lattices_from(stack, i) ==
    IF i > Len(stack) THEN {stack}
    ELSE IF stack[i].type = "LATTICE"
    THEN LET applied == RemoveAt(stack, i)
         IN  UNION {apply_lattices_from(applied, j) :
                        j \in NextAfterRemoval(applied, i)}
    ELSE apply_lattices_from(stack, i + 1)

\* ADH_ApplyLattices.execute
ApplyLattices_execute ==
    /\ ApplyLattices_poll
    /\ LET obj == active_object IN
       /\ shape_keys' = [shape_keys EXCEPT ![obj] =
                            IF shape_keys[obj] # <<>>
                            THEN shape_keys_removed(shape_keys[obj], Len(shape_keys[obj]))
                            ELSE shape_keys[obj]]
       /\ \E left \in apply_lattices_from(modifiers[obj], 1) :
             modifiers' = [modifiers EXCEPT ![obj] = left]
    /\ op' = "apply_lattices"
    /\ op_arg' = <<>>
    /\ op_ret' = "FINISHED"
    /\ UNCHANGED <<ob_type, ob_select, active_object, ob_mode,
                   vertex_groups, vg_active, vert_select, vgroup_weight>>
    /\ UNCHANGED <<pasteVars, driverVars, rigVars, poseVars>>

\* A modifier as the user's scene has it at the start
Modifier(base, n, type) ==
    [name |-> <<base, n>>, type |-> type, show_viewport |-> TRUE,
     show_expanded |-> TRUE, show_render |-> TRUE, vertex_group |-> NoName,
     object |-> NoObject, subtarget |-> <<>>, vertex_indices |-> {}]

ModifierChoices ==
    {Modifier("Lattice", 0, "LATTICE"), Modifier("Lattice", 1, "LATTICE"),
     Modifier("Subsurf", 0, "SUBSURF"), Modifier("Armature", 0, "ARMATURE")}

\* The stacks of at most n of these modifiers, each at most once
RECURSIVE Stacks(_)
Stacks(n) ==
    IF n = 0 THEN {<<>>}
    ELSE LET shorter == Stacks(n - 1)
         IN  shorter \cup
             UNION {{Append(st, m) : m \in {x \in ModifierChoices :
                                               \A i \in 1..Len(st) : st[i] # x}} :
                    st \in shorter}

\* Scenes of NumObjects objects, each a mesh or an armature, in object mode; the
\* first object carries any stack, the others a small one.
ModifiersInit ==
    /\ ob_type \in [1..NumObjects -> {"MESH", "ARMATURE"}]
    /\ ob_select \in SUBSET (1..NumObjects)
    /\ active_object \in (1..NumObjects) \cup {NoObject}
    /\ ob_mode = [o \in 1..NumObjects |-> "OBJECT"]
    /\ modifiers \in {f \in [1..NumObjects -> Stacks(MaxMods)] :
                         \A o \in 2..NumObjects : Len(f[o]) <= 1}
    /\ shape_keys \in {f \in [1..NumObjects -> {<<>>, <<"Basis", "Key 1">>}] :
                          \A o \in 1..NumObjects :
                              f[o] # <<>> => (ob_type[o] = "MESH" /\ o = active_object)}
    /\ vertex_groups = [o \in 1..NumObjects |-> <<>>]
    /\ vg_active = [o \in 1..NumObjects |-> -1]
    /\ vert_select = [o \in 1..NumObjects |-> {}]
    /\ vgroup_weight = 10
    /\ op_arg = <<>>
    /\ op = None
    /\ op_ret = None

ModifiersNext ==
    \/ AddSubdivisionSurfaceModifier_execute
    \/ ApplyLattices_execute

SpecModifiersInit == PasteIdle /\ DriverIdle /\ ModifiersInit /\ RigIdle /\ PoseIdle

SpecModifiers == SpecModifiersInit /\ [][ModifiersNext]_vars

SelectedMeshes == {o \in Objects : o \in ob_select /\ ob_type[o] = "MESH"}

\* C6: after Add Subdivision Surface Modifier every selected mesh has a SUBSURF
\* modifier; a mesh gets a new modifier, one, a SUBSURF, at the end of its stack,
\* only if it had no SUBSURF before; a run that follows a run adds no modifier;
\* the stacks of the other objects are unchanged.
C6_AddSubsurf ==
    [][ (op' = "add_subsurf_modifier") =>
          /\ \A o \in SelectedMeshes :
                /\ HasType(modifiers'[o], "SUBSURF")
                /\ IF HasType(modifiers[o], "SUBSURF")
                   THEN /\ Len(modifiers'[o]) = Len(modifiers[o])
                        /\ \A i \in 1..Len(modifiers[o]) :
                              /\ modifiers'[o][i].name = modifiers[o][i].name
                              /\ modifiers'[o][i].type = modifiers[o][i].type
                   ELSE /\ Len(modifiers'[o]) = Len(modifiers[o]) + 1
                        /\ SubSeq(modifiers'[o], 1, Len(modifiers[o])) = modifiers[o]
                        /\ modifiers'[o][Len(modifiers'[o])].type = "SUBSURF"
          /\ \A o \in Objects \ SelectedMeshes : modifiers'[o] = modifiers[o]
          /\ (op = "add_subsurf_modifier") =>
                \A o \in Objects : Len(modifiers'[o]) = Len(modifiers[o])
      ]_vars

\* C6 witness: after a run, a selected mesh that was given a Subsurf modifier
\* after other modifiers, beside an unselected mesh without one.
C6_Witness ==
    /\ op = "add_subsurf_modifier"
    /\ \E o \in SelectedMeshes :
          /\ Len(modifiers[o]) >= 2
          /\ modifiers[o][Len(modifiers[o])].type = "SUBSURF"
          /\ ~modifiers[o][Len(modifiers[o])].show_expanded
    /\ \E o \in Objects \ ob_select :
          ob_type[o] = "MESH" /\ ~HasType(modifiers[o], "SUBSURF")

\* s without its elements of type LATTICE
RECURSIVE WithoutLattices(_)
WithoutLattices(stack) ==
    IF stack = <<>> THEN <<>>
    ELSE IF stack[1].type = "LATTICE" THEN WithoutLattices(Tail(stack))
    ELSE <<stack[1]>> \o WithoutLattices(Tail(stack))

NumVerts == 2
MaxGroups == 2
MaxMaskMods == 2
MaxMaskStack == 4

Verts == 1..NumVerts

\* ADH_AbstractMaskOperator.MASK_NAME
MASK_NAME == <<"Z_ADH_MASK", 0>>

\* The weight of a vertex that is not in a group; weights are in tenths.
NoWeight == -1

\* ADH_AbstractMaskOperator.poll
AbstractMaskOperator_poll ==
    active_object # NoObject /\ ob_type[active_object] = "MESH"

\* obj.vertex_groups.new(name): an empty, unlocked group at the end
vertex_groups_new(groups, base) ==
    Append(groups, [name |-> UniqueName(base, Names(groups)), lock_weight |-> FALSE,
                    w |-> [v \in Verts |-> NoWeight]])

\* vg.add(verts, weight, 'REPLACE')
vg_add(g, verts, weight) ==
    [g EXCEPT !.w = [v \in Verts |-> IF v \in verts THEN weight ELSE g.w[v]]]

\* vg.remove(verts)
vg_remove(g, verts) ==
    [g EXCEPT !.w = [v \in Verts |-> IF v \in verts THEN NoWeight ELSE g.w[v]]]

\* bpy.ops.object.vertex_group_assign(): the selected vertices get the weight of
\* the tool settings in the active group
vertex_group_assign(g, verts) == vg_add(g, verts, vgroup_weight)

\* bpy.ops.object.vertex_group_remove_from(): the selected vertices leave the
\* active group
vertex_group_remove_from(g, verts) == vg_remove(g, verts)

\* bpy.ops.object.vertex_group_invert() on the active group: each weight w
\* becomes 1 - w, a vertex outside counting as 0 and one left with 0 leaving the
\* group; in edit mode only the selected vertices are touched.
vertex_group_invert(g, verts) ==
    [g EXCEPT !.w = [v \in Verts |->
        IF v \in verts
        THEN LET old == IF g.w[v] = NoWeight THEN 0 ELSE g.w[v]
             IN  IF 10 - old = 0 THEN NoWeight ELSE 10 - old
        ELSE g.w[v]]]

\* ADH_AbstractMaskOperator.setup_mask_modifier: the stack afterwards
setup_mask_modifier(stack) ==
    LET found == IndexOf(stack, MASK_NAME)
        stack1 == IF found = 0 \/ stack[found].type # "MASK"
                  THEN modifiers_new(stack, "Z_ADH_MASK", "MASK")
                  ELSE stack
        mm == IF found = 0 \/ stack[found].type # "MASK" THEN Len(stack1) ELSE found
    IN  [stack1 EXCEPT ![mm].show_render = FALSE,
                       ![mm].show_expanded = FALSE,
                       ![mm].vertex_group = MASK_NAME]

\* ADH_MaskSelectedVertices.invoke, lines 220-229: the groups after the action
mask_action(groups, vg, action, mode, selected_verts) ==
    IF action = "add"
    THEN IF mode = "EDIT"
         THEN [groups EXCEPT ![vg] = vertex_group_assign(groups[vg], selected_verts)]
         ELSE [groups EXCEPT ![vg] = vg_add(groups[vg], selected_verts, 10)]
    ELSE IF action = "remove"
    THEN IF mode = "EDIT"
         THEN [groups EXCEPT ![vg] = vertex_group_remove_from(groups[vg], selected_verts)]
         ELSE [groups EXCEPT ![vg] = vg_remove(groups[vg], selected_verts)]
    ELSE groups

\* ADH_MaskSelectedVertices.invoke on an event with the given modifier keys.
\* Beside a modifier of another type that has the mask's name every call adds
\* one more mask modifier, so the length of the stack is capped.
MaskSelectedVertices_invoke ==
    /\ AbstractMaskOperator_poll
    /\ Len(modifiers[active_object]) < MaxMaskStack
    /\ \E shift \in BOOLEAN, ctrl \in BOOLEAN :
          LET mesh == active_object
              orig_vg == vg_active[mesh]
              action == IF shift THEN "remove" ELSE IF ctrl THEN "invert" ELSE "add"
              groups1 == IF IndexOf(vertex_groups[mesh], MASK_NAME) = 0
                         THEN vertex_groups_new(vertex_groups[mesh], "Z_ADH_MASK")
                         ELSE vertex_groups[mesh]
              vg == IndexOf(groups1, MASK_NAME)
              groups2 == IF action = "invert"
                         THEN [groups1 EXCEPT ![vg] =
                                  vertex_group_invert(groups1[vg],
                                      IF ob_mode[mesh] = "EDIT" THEN vert_select[mesh]
                                      ELSE Verts)]
                         ELSE groups1
              selected_verts == vert_select[mesh]
          IN  /\ vertex_groups' = [vertex_groups EXCEPT ![mesh] =
                     mask_action(groups2, vg, action, ob_mode[mesh], selected_verts)]
              /\ modifiers' = [modifiers EXCEPT ![mesh] = setup_mask_modifier(modifiers[mesh])]
              /\ vg_active' = [vg_active EXCEPT ![mesh] =
                                  IF orig_vg # -1 THEN orig_vg ELSE vg - 1]
              /\ op_arg' = <<shift, ctrl>>
    /\ op' = "mask_selected_vertices"
    /\ op_ret' = "FINISHED"
    /\ UNCHANGED <<ob_type, ob_select, active_object, ob_mode, shape_keys,
                   vert_select, vgroup_weight>>
    /\ UNCHANGED <<pasteVars, driverVars, rigVars, poseVars>>

\* obj.vertex_groups.active_index after the group at position i (from 1) of n
\* groups has been removed
active_index_after_remove(active, i, n) ==
    LET moved == IF active >= i - 1 THEN active - 1 ELSE active
    IN  IF n = 1 THEN -1 ELSE IF moved < 0 THEN 0 ELSE moved

\* A variant of DeleteMask_stack that removes the modifier of that name
\* whatever its type.
DeleteMask_stack_any_type(stack) ==
    LET mm == IndexOf(stack, MASK_NAME)
    IN  IF mm # 0 THEN RemoveAt(stack, mm) ELSE stack

\* ADH_DeleteMask.execute, lines 175-177: the modifier stack afterwards
DeleteMask_stack(stack) ==
    LET mm == IndexOf(stack, MASK_NAME)
    IN  IF mm # 0 /\ stack[mm].type = "MASK" THEN RemoveAt(stack, mm) ELSE stack

\* ADH_DeleteMask.execute
DeleteMask_execute ==
    /\ AbstractMaskOperator_poll
    /\ LET mesh == active_object
           vg == IndexOf(vertex_groups[mesh], MASK_NAME)
       IN  /\ modifiers' = [modifiers EXCEPT ![mesh] = DeleteMask_stack(modifiers[mesh])]
           /\ IF vg # 0
              THEN /\ vertex_groups' = [vertex_groups EXCEPT ![mesh] =
                                           RemoveAt(vertex_groups[mesh], vg)]
                   /\ vg_active' = [vg_active EXCEPT ![mesh] =
                          active_index_after_remove(vg_active[mesh], vg,
                                                    Len(vertex_groups[mesh]))]
              ELSE UNCHANGED <<vertex_groups, vg_active>>
    /\ op' = "delete_mask"
    /\ op_arg' = <<>>
    /\ op_ret' = "FINISHED"
    /\ UNCHANGED <<ob_type, ob_select, active_object, ob_mode, shape_keys,
                   vert_select, vgroup_weight>>
    /\ UNCHANGED <<pasteVars, driverVars, rigVars, poseVars>>

\* The vertex groups a mesh starts with: the mask group with any weights, and
\* another group.
GroupChoices ==
    {[name |-> MASK_NAME, lock_weight |-> FALSE, w |-> w] :
        w \in [Verts -> {NoWeight, 5, 10}]}
    \cup {[name |-> <<"Group", 0>>, lock_weight |-> FALSE, w |-> [v \in Verts |-> 5]]}

RECURSIVE GroupSeqs(_)
GroupSeqs(n) ==
    IF n = 0 THEN {<<>>}
    ELSE LET shorter == GroupSeqs(n - 1)
         IN  shorter \cup
             UNION {{Append(gs, g) : g \in {x \in GroupChoices :
                                              x.name \notin Names(gs)}} :
                    gs \in shorter}

\* The modifiers it starts with: a mask made by the operator, a modifier of
\* another type that has the mask's name, a Subsurf.
MaskModifierChoices ==
    {[Modifier("Z_ADH_MASK", 0, "MASK") EXCEPT !.show_render = FALSE,
                                                !.show_expanded = FALSE,
                                                !.vertex_group = MASK_NAME],
     Modifier("Z_ADH_MASK", 0, "ARMATURE"),
     Modifier("Subsurf", 0, "SUBSURF")}

RECURSIVE MaskStacks(_)
MaskStacks(n) ==
    IF n = 0 THEN {<<>>}
    ELSE LET shorter == MaskStacks(n - 1)
         IN  shorter \cup
             UNION {{Append(st, m) : m \in {x \in MaskModifierChoices :
                                              x.name \notin Names(st)}} :
                    st \in shorter}

\* A mesh, active, in object or edit mode, with some vertices selected, and an
\* armature beside it.
MaskInit ==
    /\ ob_type = [o \in 1..NumObjects |-> IF o = 1 THEN "MESH" ELSE "ARMATURE"]
    /\ ob_select \in {{}, {1}}
    /\ active_object = 1
    /\ ob_mode \in {[o \in 1..NumObjects |-> IF o = 1 THEN m ELSE "OBJECT"] :
                       m \in {"OBJECT", "EDIT"}}
    /\ modifiers \in {[o \in 1..NumObjects |-> IF o = 1 THEN st ELSE <<>>] :
                         st \in MaskStacks(MaxMaskMods)}
    /\ shape_keys = [o \in 1..NumObjects |-> <<>>]
    /\ vertex_groups \in {[o \in 1..NumObjects |-> IF o = 1 THEN gs ELSE <<>>] :
                             gs \in GroupSeqs(MaxGroups)}
    /\ vg_active \in {[o \in 1..NumObjects |-> IF o = 1 THEN i ELSE -1] :
                         i \in {j \in -1..(MaxGroups - 1) :
                                   IF vertex_groups[1] = <<>> THEN j = -1
                                   ELSE j >= 0 /\ j < Len(vertex_groups[1])}}
    /\ vert_select \in {[o \in 1..NumObjects |-> IF o = 1 THEN vs ELSE {}] :
                           vs \in SUBSET Verts}
    /\ vgroup_weight \in {5, 10}
    /\ op_arg = <<>>
    /\ op = None
    /\ op_ret = None

MaskNext ==
    \/ MaskSelectedVertices_invoke
    \/ DeleteMask_execute

SpecMaskInit == PasteIdle /\ DriverIdle /\ MaskInit /\ RigIdle /\ PoseIdle

SpecMask == SpecMaskInit /\ [][MaskNext]_vars

\* The weight of vertex v in the group Z_ADH_MASK, NoWeight if it is not in it
MaskWeight(groups, v) ==
    IF IndexOf(groups, MASK_NAME) = 0 THEN NoWeight
    ELSE groups[IndexOf(groups, MASK_NAME)].w[v]

HasMaskModifier(stack) ==
    \E i \in 1..Len(stack) :
        /\ stack[i].type = "MASK"
        /\ stack[i].vertex_group = MASK_NAME
        /\ ~stack[i].show_render

\* C7: after Mask Selected Vertices the active mesh has the group
\* Z_ADH_MASK and a MASK modifier on it that is hidden from render; with no
\* modifier key every selected vertex is in the group with weight 1.0, with
\* Shift no selected vertex is in it, and in both cases the unselected vertices
\* are in the group as before.
C7_AsStated ==
    [][ (op' = "mask_selected_vertices") =>
          LET mesh == active_object IN
          /\ IndexOf(vertex_groups'[mesh], MASK_NAME) # 0
          /\ HasMaskModifier(modifiers'[mesh])
          /\ (op_arg' = <<FALSE, FALSE>>) =>
                \A v \in vert_select[mesh] : MaskWeight(vertex_groups'[mesh], v) = 10
          /\ (op_arg'[1]) =>
                \A v \in vert_select[mesh] : MaskWeight(vertex_groups'[mesh], v) = NoWeight
          /\ (op_arg'[1] \/ ~op_arg'[2]) =>
                \A v \in Verts \ vert_select[mesh] :
                    MaskWeight(vertex_groups'[mesh], v) = MaskWeight(vertex_groups[mesh], v)
      ]_vars

\* coll without its elements that satisfy drop
Without(coll, drop(_)) ==
    LET keep(x) == ~drop(x) IN SelectSeq(coll, keep)

IsMaskModifier(m) == m.name = MASK_NAME /\ m.type = "MASK"

IsMaskGroup(g) == g.name = MASK_NAME

\* C8: after Delete Mask the active mesh has no MASK modifier named Z_ADH_MASK
\* and no vertex group named Z_ADH_MASK; its other modifiers and groups are as
\* before; the operator returns FINISHED, and on a mesh with neither it leaves
\* modifiers and groups as they are.
C8_DeleteMask ==
    [][ (op' = "delete_mask") =>
          LET mesh == active_object IN
          /\ op_ret' = "FINISHED"
          /\ ~ \E i \in 1..Len(modifiers'[mesh]) : IsMaskModifier(modifiers'[mesh][i])
          /\ IndexOf(vertex_groups'[mesh], MASK_NAME) = 0
          /\ modifiers'[mesh] = Without(modifiers[mesh], IsMaskModifier)
          /\ vertex_groups'[mesh] = Without(vertex_groups[mesh], IsMaskGroup)
          /\ \A o \in Objects \ {mesh} :
                modifiers'[o] = modifiers[o] /\ vertex_groups'[o] = vertex_groups[o]
          /\ ( /\ ~ \E i \in 1..Len(modifiers[mesh]) : IsMaskModifier(modifiers[mesh][i])
               /\ IndexOf(vertex_groups[mesh], MASK_NAME) = 0 ) =>
                /\ modifiers' = modifiers
                /\ vertex_groups' = vertex_groups
                /\ vg_active' = vg_active
      ]_vars

\* C8 witness: the mask group and modifier are gone, another group and a
\* modifier of another type with the mask's name are still there.
C8_Witness ==
    /\ op = "delete_mask" /\ op_ret = "FINISHED"
    /\ IndexOf(vertex_groups[active_object], <<"Group", 0>>) # 0
    /\ IndexOf(vertex_groups[active_object], MASK_NAME) = 0
    /\ \E i \in 1..Len(modifiers[active_object]) :
          /\ modifiers[active_object][i].name = MASK_NAME
          /\ modifiers[active_object][i].type = "ARMATURE"

(***************************************************************************)
(*                 Armatures, lattices: common definitions                 *)
(***************************************************************************)

\* Coordinates are triples of integers, in hundredths of a unit.
Vec(x, y, z) == <<x, y, z>>

VAdd(u, v) == <<u[1] + v[1], u[2] + v[2], u[3] + v[3]>>

VSub(u, v) == <<u[1] - v[1], u[2] - v[2], u[3] - v[3]>>

\* None where the index of a bone is expected
NoBone == 0

\* A bone as the user's armature has it: the host's defaults but for its name,
\* selection, ends and custom shape.
Bone(name, select, head, tail, custom_shape) ==
    [name |-> name, select |-> select, head |-> head, tail |-> tail, roll |-> 0,
     bbone_x |-> 10, bbone_z |-> 10, use_deform |-> TRUE, layers |-> {0},
     parent |-> NoBone, use_connect |-> FALSE, custom_shape |-> custom_shape,
     constraints |-> <<>>]

\* Shape keys without animation data
NoAnimationData == [animation_data |-> FALSE, drivers |-> <<>>]

(***************************************************************************)
(*                          ADH_CopyCustomShapes                           *)
(***************************************************************************)

\* Bounds: armatures in the scene, and objects used as custom shapes.
NumArmatures == 3
NumWidgets == 2

\* ADH_CopyCustomShapes.poll
CopyCustomShapes_poll ==
    /\ Len(selected_objects) >= 2
    /\ \A o \in ob_select : ob_type[o] = "ARMATURE"

\* ADH_CopyCustomShapes.execute, lines 252-258, for one destination armature:
\* pose.bones[bone.name] raises KeyError where it has no bone of that name, and
\* the except clause passes.
copy_shapes(src_bones, dst_bones) ==
    [i \in 1..Len(dst_bones) |->
        IF IndexOf(src_bones, dst_bones[i].name) # 0
        THEN [dst_bones[i] EXCEPT !.custom_shape =
                 src_bones[IndexOf(src_bones, dst_bones[i].name)].custom_shape]
        ELSE dst_bones[i]]

\* ADH_CopyCustomShapes.execute.  list.remove raises ValueError when the active
\* object is not in the list of selected objects.
CopyCustomShapes_execute ==
    /\ CopyCustomShapes_poll
    /\ LET src_armature == active_object
           dst_armatures == ob_select \ {src_armature}
       IN  IF src_armature \notin ob_select
           THEN /\ op_ret' = "ValueError"
                /\ UNCHANGED bones
           ELSE /\ bones' = [o \in Objects |->
                                IF o \in dst_armatures
                                THEN copy_shapes(bones[src_armature], bones[o])
                                ELSE bones[o]]
                /\ op_ret' = "FINISHED"
    /\ op' = "copy_shapes"
    /\ op_arg' = <<>>
    /\ UNCHANGED <<ob_type, ob_select, active_object, ob_mode, modifiers, shape_keys,
                   vertex_groups, vg_active, vert_select, vgroup_weight>>
    /\ UNCHANGED <<ob_name, ob_loc, arm_layers, lat_points, vert_co,
                   cursor_location, key_drivers>>
    /\ UNCHANGED <<pasteVars, driverVars, poseVars>>

\* The host: the user selects or deselects an object, or makes one active.
HostSelect ==
    /\ \E o \in Objects :
          \/ /\ ob_select' = (ob_select \ {o}) \cup ({o} \ ob_select)
             /\ UNCHANGED active_object
          \/ /\ ob_select' = ob_select \cup {o}
             /\ active_object' = o
    /\ op' = "select"
    /\ op_arg' = <<>>
    /\ op_ret' = None
    /\ UNCHANGED <<ob_type, ob_mode, modifiers, shape_keys,
                   vertex_groups, vg_active, vert_select, vgroup_weight>>
    /\ UNCHANGED rigVars
    /\ UNCHANGED <<pasteVars, driverVars, poseVars>>

ShapeObjects == 1..(NumArmatures + NumWidgets)

Widgets == (NumArmatures + 1)..(NumArmatures + NumWidgets)

\* The names of the two bones of each armature: "a" and "b", "a" and "c", ...
ShapeBoneNames(o) ==
    CASE o = 1 -> <<<<"a">>, <<"b">>>>
      [] o = 2 -> <<<<"a">>, <<"c">>>>
      [] OTHER -> <<<<"b">>, <<"c">>>>

\* Armatures of two bones each, any of them with or without a custom shape;
\* all objects in object mode, nothing selected.
ShapesInit ==
    /\ ob_type = [o \in ShapeObjects |-> IF o \in Widgets THEN "MESH" ELSE "ARMATURE"]
    /\ ob_select = {}
    /\ active_object \in {NoObject, 1}
    /\ ob_mode = [o \in ShapeObjects |-> "OBJECT"]
    /\ modifiers = [o \in ShapeObjects |-> <<>>]
    /\ shape_keys = [o \in ShapeObjects |-> <<>>]
    /\ vertex_groups = [o \in ShapeObjects |-> <<>>]
    /\ vg_active = [o \in ShapeObjects |-> -1]
    /\ vert_select = [o \in ShapeObjects |-> {}]
    /\ vgroup_weight = 10
    /\ op_arg = <<>>
    /\ op = None
    /\ op_ret = None
    /\ ob_name = [o \in ShapeObjects |-> <<"o", str(o)[1]>>]
    /\ ob_loc = [o \in ShapeObjects |-> Vec(0, 0, 0)]
    /\ bones \in {[o \in ShapeObjects |->
                      IF o \in Widgets THEN <<>>
                      ELSE [i \in 1..2 |->
                               Bone(ShapeBoneNames(o)[i], FALSE, Vec(0, 0, 0),
                                    Vec(0, 0, 100), f[o][i])]] :
                  f \in [1..NumArmatures -> [1..2 -> {NoObject} \cup Widgets]]}
    /\ arm_layers = [o \in ShapeObjects |-> IF o \in Widgets THEN {} ELSE {0}]
    /\ lat_points = [o \in ShapeObjects |-> <<>>]
    /\ vert_co = [o \in ShapeObjects |-> <<>>]
    /\ cursor_location = Vec(0, 0, 0)
    /\ key_drivers = [o \in ShapeObjects |-> NoAnimationData]

ShapesNext ==
    \/ CopyCustomShapes_execute
    \/ HostSelect

SpecShapesInit == PasteIdle /\ DriverIdle /\ ShapesInit /\ PoseIdle

SpecShapes == SpecShapesInit /\ [][ShapesNext]_vars

\* C10: whenever the poll of Copy Custom Shapes holds, execute returns FINISHED,
\* and then in every other selected armature each bone whose name the active
\* armature has too has that bone's custom shape, every other bone keeps its
\* own, and the active armature is as before.
C10_CopyCustomShapes ==
    [][ (op' = "copy_shapes" /\ CopyCustomShapes_poll) =>
          /\ op_ret' = "FINISHED"
          /\ \A o \in ob_select \ {active_object} :
                /\ Len(bones'[o]) = Len(bones[o])
                /\ \A i \in 1..Len(bones[o]) :
                      LET j == IndexOf(bones[active_object], bones[o][i].name)
                      IN  IF j # 0
                          THEN bones'[o][i].custom_shape
                                  = bones[active_object][j].custom_shape
                          ELSE bones'[o][i] = bones[o][i]
          /\ bones'[active_object] = bones[active_object]
      ]_vars

(***************************************************************************)
(*                  Names, vectors and the host's bone tools               *)
(***************************************************************************)

\* PRF_ROOT, PRF_TIP, PRF_HOOK
PRF_ROOT == <<"r", "o", "o", "t", "-">>

PRF_TIP == <<"t", "i", "p", "-">>

PRF_HOOK == <<"h", "o", "o", "k", "-">>

\* BBONE_BASE_SIZE = 0.01, in hundredths
BBONE_BASE_SIZE == 1

Abs(x) == IF x < 0 THEN -x ELSE x

\* The name the host gives where `name` is asked for and the names in `used`
\* are taken: the stem of the name (what is before a last dot that only digits
\* follow) with the next free number in three digits
unique_name(name, used) ==
    IF name \notin used THEN name
    ELSE LET dots == {i \in 1..Len(name) : name[i] = "."}
             last == IF dots = {} THEN 0 ELSE CHOOSE i \in dots : \A j \in dots : j <= i
             numbered == last # 0 /\ last < Len(name)
                         /\ AllDigits(name, last, Len(name) - last)
             stem == IF numbered THEN SubSeq(name, 1, last - 1) ELSE name
             from == IF numbered THEN int(SubSeq(name, last + 1, Len(name))) + 1 ELSE 1
             Digits3(k) == IF k < 10 THEN <<"0", "0">> \o str(k)
                           ELSE IF k < 100 THEN <<"0">> \o str(k)
                           ELSE str(k)
             candidate(k) == stem \o <<".">> \o Digits3(k)
             n == CHOOSE k \in from..(from + Cardinality(used)) :
                     /\ candidate(k) \notin used
                     /\ \A j \in from..(k - 1) : candidate(j) \in used
         IN  candidate(n)

\* armature.data.edit_bones.new(name): the bones with the host's new bone added
edit_bones_new(bs, name, layers) ==
    Append(bs, [Bone(unique_name(name, Names(bs)), FALSE, Vec(0, 0, 0), Vec(0, 0, 0),
                     NoObject) EXCEPT !.layers = layers])

\* bone.align_orientation(other) of the host's bpy_types: the tail goes along
\* the other bone at the bone's own length, the roll is the other's.  Bones
\* lie along an axis in the scenes below, which gives their length and unit
\* vector in integers.
align_orientation(bone, other) ==
    LET Sign(x) == IF x < 0 THEN -1 ELSE IF x > 0 THEN 1 ELSE 0
        vector == VSub(other.tail, other.head)
        normalized == <<Sign(vector[1]), Sign(vector[2]), Sign(vector[3])>>
        own == VSub(bone.tail, bone.head)
        length == Abs(own[1]) + Abs(own[2]) + Abs(own[3])
    IN  [bone EXCEPT !.tail = VAdd(bone.head, <<normalized[1] * length,
                                               normalized[2] * length,
                                               normalized[3] * length>>),
                     !.roll = other.roll]

\* pbone.constraints.new(type): the host's new constraint
Constraint(type) ==
    [type |-> type, owner_space |-> "WORLD", target_space |-> "WORLD",
     target |-> NoObject, subtarget |-> <<>>]

\* The indices of the selected elements of a collection, in order
SelectedIdx(coll) == SortedSeq({i \in 1..Len(coll) : coll[i].select})

\* The scene data an operator can change: everything but the record of the
\* operator that ran last
sceneData == <<ob_type, ob_select, active_object, ob_mode, modifiers, shape_keys,
               vertex_groups, vg_active, vert_select, vgroup_weight, rigVars, poseVars>>

(***************************************************************************)
(*                             ADH_RenameRegex                             *)
(***************************************************************************)

\* Bounds: no name grows beyond MaxNameLen characters by renaming; an armature
\* of more than MaxBones bones gets no further bones.
MaxNameLen == 3
MaxBones == 3

\* re.compile(search_str) raises re.error on a pattern that does not parse;
\* of the patterns below the one with a parenthesis does not.
re_compile_ok(search_str) == \A i \in 1..Len(search_str) : search_str[i] # "("

\* substring_re.sub(replacement_str, s) from position pos on, for a pattern of
\* literal characters and a replacement without group references: the
\* leftmost matches, not overlapping, are replaced; the empty pattern matches
\* before every character and at the end.
RECURSIVE re_sub_from(_, _, _, _)
re_sub_from(search_str, replacement_str, s, pos) ==
    IF pos > Len(s)
    THEN IF search_str = <<>> THEN replacement_str ELSE <<>>
    ELSE IF search_str = <<>>
    THEN replacement_str \o <<s[pos]>>
            \o re_sub_from(search_str, replacement_str, s, pos + 1)
    ELSE IF /\ pos + Len(search_str) - 1 <= Len(s)
            /\ SubSeq(s, pos, pos + Len(search_str) - 1) = search_str
    THEN replacement_str
            \o re_sub_from(search_str, replacement_str, s, pos + Len(search_str))
    ELSE <<s[pos]>> \o re_sub_from(search_str, replacement_str, s, pos + 1)

re_sub(search_str, replacement_str, s) == re_sub_from(search_str, replacement_str, s, 1)

\* A variant of RenameRegex_item_list that takes the selected objects in every
\* mode it has no list for.
RenameRegex_item_list_objects(mode) ==
    CASE mode = "OBJECT" -> "selected_objects"
      [] mode = "POSE" -> "selected_pose_bones"
      [] mode = "EDIT_ARMATURE" -> "selected_bones"
      [] OTHER -> "selected_objects"

\* ADH_RenameRegex.execute, lines 64-71: the list taken for the mode
RenameRegex_item_list(mode) ==
    CASE mode = "OBJECT" -> "selected_objects"
      [] mode = "POSE" -> "selected_pose_bones"
      [] mode = "EDIT_ARMATURE" -> "selected_bones"
      [] OTHER -> "CANCELLED"

\* item.name = new on an object: the host keeps object names unique
RECURSIVE rename_objects(_, _, _, _)
rename_objects(names, items, search_str, replacement_str) ==
    IF items = <<>> THEN names
    ELSE LET o == Head(items)
             new == re_sub(search_str, replacement_str, names[o])
             others == {names[x] : x \in (DOMAIN names) \ {o}}
         IN  rename_objects([names EXCEPT ![o] = unique_name(new, others)],
                            Tail(items), search_str, replacement_str)

\* item.name = new on the bones `items` of an armature, one after the other;
\* sc is the record of bones, modifiers and drivers of the scene so far.  The
\* host keeps bone names unique in the armature and retargets the constraints,
\* hook modifiers and driver targets that name the bone.
RECURSIVE rename_bones(_, _, _, _, _)
rename_bones(sc, armature, items, search_str, replacement_str) ==
    IF items = <<>> THEN sc
    ELSE LET i == Head(items)
             bs == sc.bones[armature]
             old == bs[i].name
             others == {bs[k].name : k \in (1..Len(bs)) \ {i}}
             new == unique_name(re_sub(search_str, replacement_str, old), others)
             renamed == [sc.bones EXCEPT ![armature][i].name = new]
             retarget_constraints(cs) ==
                 [k \in 1..Len(cs) |->
                     IF cs[k].target = armature /\ cs[k].subtarget = old
                     THEN [cs[k] EXCEPT !.subtarget = new] ELSE cs[k]]
             retarget_modifiers(stack) ==
                 [k \in 1..Len(stack) |->
                     IF stack[k].object = armature /\ stack[k].subtarget = old
                     THEN [stack[k] EXCEPT !.subtarget = new] ELSE stack[k]]
             retarget_drivers(ds) ==
                 [k \in 1..Len(ds) |->
                     IF ds[k].id = armature /\ ds[k].bone_target = old
                     THEN [ds[k] EXCEPT !.bone_target = new] ELSE ds[k]]
         IN  rename_bones(
                 [bones |-> [o \in DOMAIN renamed |->
                                [k \in 1..Len(renamed[o]) |->
                                    [renamed[o][k] EXCEPT !.constraints =
                                        retarget_constraints(@)]]],
                  modifiers |-> [o \in DOMAIN sc.modifiers |->
                                    retarget_modifiers(sc.modifiers[o])],
                  key_drivers |-> [o \in DOMAIN sc.key_drivers |->
                                      [sc.key_drivers[o] EXCEPT !.drivers =
                                          retarget_drivers(@)]]],
                 armature, Tail(items), search_str, replacement_str)

\* ADH_RenameRegex.poll
RenameRegex_poll == selected_objects # <<>>

\* The patterns and replacements the user types
SearchPatterns == {<<"a">>, <<>>, <<"(">>}

ReplacementStrings == {<<"b">>}

\* No name of the items grows beyond MaxNameLen
RenameBounded(names, search_str, replacement_str) ==
    \A n \in names :
        \/ re_sub(search_str, replacement_str, n) = n
        \/ Len(re_sub(search_str, replacement_str, n)) <= MaxNameLen

\* ADH_RenameRegex.execute
RenameRegex_execute ==
    /\ RenameRegex_poll
    /\ \E search_str \in SearchPatterns, replacement_str \in ReplacementStrings :
          /\ op_arg' = <<search_str, replacement_str>>
          /\ IF ~re_compile_ok(search_str)
             THEN /\ op_ret' = "re.error"
                  /\ UNCHANGED <<ob_name, bones, modifiers, key_drivers>>
             ELSE LET item_list == RenameRegex_item_list(context_mode) IN
                  CASE item_list = "CANCELLED" ->
                          /\ op_ret' = "CANCELLED"
                          /\ UNCHANGED <<ob_name, bones, modifiers, key_drivers>>
                    [] item_list = "selected_objects" ->
                          /\ RenameBounded({ob_name[o] : o \in ob_select},
                                           search_str, replacement_str)
                          /\ ob_name' = rename_objects(ob_name, selected_objects,
                                                       search_str, replacement_str)
                          /\ op_ret' = "FINISHED"
                          /\ UNCHANGED <<bones, modifiers, key_drivers>>
                    [] OTHER ->
                          LET armature == active_object
                              items == SelectedIdx(bones[armature])
                              sc == rename_bones(
                                        [bones |-> bones, modifiers |-> modifiers,
                                         key_drivers |-> key_drivers],
                                        armature, items, search_str, replacement_str)
                          IN  /\ RenameBounded({bones[armature][i].name :
                                                   i \in {items[k] : k \in 1..Len(items)}},
                                               search_str, replacement_str)
                              /\ bones' = sc.bones
                              /\ modifiers' = sc.modifiers
                              /\ key_drivers' = sc.key_drivers
                              /\ op_ret' = "FINISHED"
                              /\ UNCHANGED ob_name
    /\ op' = "rename_regex"
    /\ UNCHANGED <<ob_type, ob_select, active_object, ob_mode, shape_keys,
                   vertex_groups, vg_active, vert_select, vgroup_weight>>
    /\ UNCHANGED <<ob_loc, arm_layers, lat_points, vert_co, cursor_location>>
    /\ UNCHANGED <<pasteVars, driverVars, poseVars>>

(***************************************************************************)
(*                             ADH_CreateHooks                             *)
(***************************************************************************)

\* "%1.1e" % x for x >= 0 given in hundredths: two significant digits, the
\* second rounded half to even, and the exponent with its sign in two digits
format_1e(n) ==
    IF n = 0 THEN <<"0", ".", "0", "e", "+", "0", "0">>
    ELSE LET k == Len(NatStr(n))
             RECURSIVE pow10(_)
             pow10(e) == IF e = 0 THEN 1 ELSE 10 * pow10(e - 1)
             unit == IF k <= 2 THEN 1 ELSE pow10(k - 2)
             q == IF k = 1 THEN n * 10 ELSE n \div unit
             r == IF k <= 2 THEN 0 ELSE n % unit
             up == 2 * r > unit \/ (2 * r = unit /\ q % 2 = 1)
             m0 == IF up THEN q + 1 ELSE q
             m == IF m0 = 100 THEN 10 ELSE m0
             e == (k - 3) + (IF m0 = 100 THEN 1 ELSE 0)
         IN  <<DigitChars[(m \div 10) + 1], ".", DigitChars[(m % 10) + 1], "e",
               IF e < 0 THEN "-" ELSE "+">>
             \o (IF Abs(e) < 10 THEN <<"0">> ELSE <<>>) \o NatStr(Abs(e))

\* hook_on_lattice: global_lat_point_co, translations being the only
\* transformations the scenes below give to objects
global_lat_point_co(lattice, armature, p) ==
    VSub(VAdd(p, ob_loc[lattice]), ob_loc[armature])

\* hook_on_lattice, lines 658-666: the name for the bone at `point`, an
\* element of bone_pos
lattice_bone_name(lattice, armature, point) ==
    LET g == global_lat_point_co(lattice, armature, point)
    IN  PRF_HOOK \o ob_name[lattice] \o <<".">>
        \o format_1e(2 * Abs(g[1]) + 3 * Abs(g[2]) + 5 * Abs(g[3]))
        \o (IF g[1] < 0 THEN <<".", "R">>
            ELSE IF point[1] > 0 THEN <<".", "L">> ELSE <<>>)

\* hook_on_lattice, lines 671-679: a bone for each position from the k-th on
RECURSIVE lattice_bones(_, _, _, _, _, _)
lattice_bones(bs, bone_pos, bone_names, k, layers, hook_layers) ==
    IF k > Len(bone_pos) THEN bs
    ELSE LET added == edit_bones_new(bs, bone_names[k], layers)
             bone == [added[Len(added)] EXCEPT
                         !.head = bone_pos[k],
                         !.tail = VAdd(bone_pos[k], Vec(0, 0, BBONE_BASE_SIZE * 5)),
                         !.bbone_x = BBONE_BASE_SIZE,
                         !.bbone_z = BBONE_BASE_SIZE,
                         !.layers = hook_layers,
                         !.use_deform = FALSE]
         IN  lattice_bones([added EXCEPT ![Len(added)] = bone], bone_pos, bone_names,
                           k + 1, layers, hook_layers)

\* hook_on_lattice, lines 689-697: a hook modifier for each selected point from
\* the k-th on; hook_assign puts the one point selected at the time into the
\* modifier that has the name asked for
RECURSIVE lattice_hooks(_, _, _, _, _)
lattice_hooks(stack, selected_points, bone_names, k, armature) ==
    IF k > Len(selected_points) THEN stack
    ELSE LET added == modifiers_new(stack, bone_names[k], "HOOK")
             mod == [added[Len(added)] EXCEPT !.object = armature,
                                              !.subtarget = bone_names[k]]
             stack1 == [added EXCEPT ![Len(added)] = mod]
             assigned == IndexOf(stack1, <<bone_names[k], 0>>)
         IN  lattice_hooks([stack1 EXCEPT ![assigned].vertex_indices =
                                              {selected_points[k]}],
                           selected_points, bone_names, k + 1, armature)

\* ADH_CreateHooks.hook_on_bone, lines 707-716: a hook bone for each selected
\* bone from the k-th on
RECURSIVE hook_bones(_, _, _, _, _)
hook_bones(bs, selected, k, layers, hook_layers) ==
    IF k > Len(selected) THEN bs
    ELSE LET bone == bs[selected[k]]
             added == edit_bones_new(bs, PRF_HOOK \o bone.name, layers)
             hook == [added[Len(added)] EXCEPT
                         !.head = bone.head,
                         !.tail = bone.tail,
                         !.bbone_x = bone.bbone_x * 2,
                         !.bbone_z = bone.bbone_z * 2,
                         !.layers = hook_layers,
                         !.use_deform = FALSE,
                         !.roll = bone.roll]
         IN  hook_bones([added EXCEPT ![Len(added)] = hook], selected, k + 1,
                        layers, hook_layers)

\* ADH_CreateHooks.setup_copy_constraint for each selected pose bone
copy_constraints(bs, selected, armature) ==
    [i \in 1..Len(bs) |->
        IF \E k \in 1..Len(selected) : selected[k] = i
        THEN [bs[i] EXCEPT !.constraints =
                 Append(@, [Constraint("COPY_TRANSFORMS") EXCEPT
                               !.owner_space = "LOCAL",
                               !.target_space = "LOCAL",
                               !.target = armature,
                               !.subtarget = PRF_HOOK \o bs[i].name])]
        ELSE bs[i]]

\* ADH_CreateHooks.poll
CreateHooks_poll ==
    active_object # NoObject /\ ob_type[active_object] \in {"ARMATURE", "LATTICE"}

\* The default of the property hook_layers
HookLayers == {{30}}

\* ADH_CreateHooks.execute on a lattice with another object selected:
\* hook_on_lattice.  An object that is no armature has no edit_bones and no
\* layers: AttributeError, after the modes and the active object have changed.
CreateHooks_hook_on_lattice(lattice, armature, hook_layers) ==
    LET selected_points == SelectedIdx(lat_points[lattice])
        bone_pos == [k \in 1..Len(selected_points) |->
                        global_lat_point_co(lattice, armature,
                                            lat_points[lattice][selected_points[k]].co)]
        bone_names == [k \in 1..Len(bone_pos) |->
                          lattice_bone_name(lattice, armature, bone_pos[k])]
    IN  IF ob_type[armature] # "ARMATURE"
        THEN /\ ob_mode' = [ob_mode EXCEPT ![lattice] = "OBJECT", ![armature] = "EDIT"]
             /\ active_object' = armature
             /\ op_ret' = "AttributeError"
             /\ UNCHANGED <<bones, arm_layers, modifiers>>
        ELSE /\ Len(bones[armature]) <= MaxBones
             /\ bones' = [bones EXCEPT ![armature] =
                             lattice_bones(@, bone_pos, bone_names, 1,
                                           arm_layers[armature], hook_layers)]
             /\ arm_layers' = [arm_layers EXCEPT ![armature] = @ \cup hook_layers]
             /\ modifiers' = [modifiers EXCEPT ![lattice] =
                                 lattice_hooks(@, selected_points, bone_names, 1, armature)]
             /\ op_ret' = "FINISHED"
             /\ UNCHANGED <<ob_mode, active_object>>

\* ADH_CreateHooks.execute on an armature: hook_on_bone
CreateHooks_hook_on_bone(armature, hook_layers) ==
    LET selected == SelectedIdx(bones[armature])
    IN  /\ Len(bones[armature]) <= MaxBones
        /\ bones' = [bones EXCEPT ![armature] =
                        copy_constraints(
                            hook_bones(@, selected, 1, arm_layers[armature], hook_layers),
                            selected, armature)]
        /\ op_ret' = "FINISHED"
        /\ UNCHANGED <<ob_mode, active_object, arm_layers, modifiers>>

\* ADH_CreateHooks.execute
CreateHooks_execute ==
    /\ CreateHooks_poll
    /\ \E hook_layers \in HookLayers :
          LET obj1 == active_object
              selected == SortedSeq(ob_select \ {obj1})
          IN  /\ op_arg' = <<hook_layers>>
              /\ IF ob_type[obj1] = "LATTICE"
                 THEN IF selected = <<>>
                      THEN /\ op_ret' = "CANCELLED"
                           /\ UNCHANGED <<ob_mode, active_object, bones, arm_layers,
                                          modifiers>>
                      ELSE CreateHooks_hook_on_lattice(obj1, selected[1], hook_layers)
                 ELSE CreateHooks_hook_on_bone(obj1, hook_layers)
    /\ op' = "create_hooks"
    /\ UNCHANGED <<ob_type, ob_select, shape_keys, vertex_groups, vg_active,
                   vert_select, vgroup_weight>>
    /\ UNCHANGED <<ob_name, ob_loc, lat_points, vert_co, cursor_location, key_drivers>>
    /\ UNCHANGED <<pasteVars, driverVars, poseVars>>

(***************************************************************************)
(*                             ADH_CreateSpokes                            *)
(***************************************************************************)

\* The defaults of the properties spoke_layers, aux_layers and basename
SpokeLayers == {29}

AuxLayers == {30}

Basename == <<"s", "p", "o", "k", "e">>

\* ADH_CreateSpokes.setup_bone_parent on the bone at index b; parent_bone is an
\* index or NoBone, P the property `parent`.  A connected bone has its head at
\* the tail of its parent.
setup_bone_parent(bs, b, parent_bone, P, layers) ==
    LET bone == bs[b]
        added == edit_bones_new(bs, PRF_ROOT \o bone.name, layers)
        made == [added[Len(added)] EXCEPT
                    !.tail = VAdd(bone.head, Vec(0, 0, -5)),
                    !.head = bone.head,
                    !.bbone_x = bone.bbone_x * 2,
                    !.bbone_z = bone.bbone_x * 2,
                    !.layers = AuxLayers]
        aligned == [align_orientation(made, bone) EXCEPT !.use_deform = FALSE]
        delta == VSub(aligned.head, aligned.tail)
        moved == [aligned EXCEPT !.head = VAdd(@, delta), !.tail = VAdd(aligned.tail, delta)]
        create == parent_bone = NoBone /\ P
        bs1 == IF create THEN [added EXCEPT ![Len(added)] = moved] ELSE bs
        parent1 == IF create THEN Len(added) ELSE parent_bone
    IN  IF parent1 # NoBone
        THEN [bs1 EXCEPT ![b].parent = parent1,
                         ![b].use_connect = TRUE,
                         ![b].head = bs1[parent1].tail]
        ELSE bs1

\* ADH_CreateSpokes.setup_bone_tip on the bone at index b; T is the property `tip`
setup_bone_tip(bs, b, T, layers) ==
    IF ~T THEN bs
    ELSE LET bone == bs[b]
             added == edit_bones_new(bs, PRF_TIP \o bone.name, layers)
             made == [added[Len(added)] EXCEPT
                         !.head = bone.tail,
                         !.tail = VAdd(bone.tail, Vec(5, 0, 0)),
                         !.bbone_x = bone.bbone_x * 2,
                         !.bbone_z = bone.bbone_z * 2]
             tip_bone == [align_orientation(made, bone) EXCEPT
                             !.layers = AuxLayers, !.use_deform = FALSE]
         IN  [added EXCEPT ![Len(added)] = tip_bone]

\* ADH_CreateSpokes.setup_bone_constraint on the pose bone named bone_name
setup_bone_constraint(bs, bone_name, T, armature) ==
    IF ~T THEN bs
    ELSE [bs EXCEPT ![IndexOf(bs, bone_name)].constraints =
             Append(@, [Constraint("DAMPED_TRACK") EXCEPT
                           !.target = armature,
                           !.subtarget = PRF_TIP \o bone_name])]

\* ADH_CreateSpokes.setup_bone
setup_bone(bs, bone_name, head_co, tail_co, parent, P, T, layers) ==
    LET added == edit_bones_new(bs, bone_name, layers)
        b == Len(added)
        bone == [added[b] EXCEPT !.head = head_co,
                                 !.tail = tail_co,
                                 !.bbone_x = BBONE_BASE_SIZE,
                                 !.bbone_z = BBONE_BASE_SIZE,
                                 !.use_deform = TRUE,
                                 !.select = TRUE,
                                 !.layers = SpokeLayers]
    IN  setup_bone_tip(setup_bone_parent([added EXCEPT ![b] = bone], b, parent, P, layers),
                       b, T, layers)

\* ADH_CreateSpokes.set_armature_layers
set_armature_layers(layers, P, T) ==
    IF P \/ T THEN layers \cup SpokeLayers \cup AuxLayers ELSE layers \cup SpokeLayers

\* ADH_CreateSpokes.get_vertex_coordinates
get_vertex_coordinates(mesh, armature) ==
    LET selected == SortedSeq(vert_select[mesh])
    IN  [k \in 1..Len(selected) |->
            VSub(VAdd(vert_co[mesh][selected[k]], ob_loc[mesh]), ob_loc[armature])]

\* "%s.%d" % (self.basename, index), index counting from 0
spoke_name(index) == Basename \o <<".">> \o str(index)

\* create_spokes, lines 885-887: a spoke for each vertex from the k-th on
RECURSIVE spoke_bones(_, _, _, _, _, _, _, _)
spoke_bones(bs, vert_coordinates, k, cursor_co, parent, P, T, layers) ==
    IF k > Len(vert_coordinates) THEN bs
    ELSE spoke_bones(setup_bone(bs, spoke_name(k - 1), cursor_co, vert_coordinates[k],
                                parent, P, T, layers),
                     vert_coordinates, k + 1, cursor_co, parent, P, T, layers)

\* create_spokes, lines 890-892: the constraint of each spoke from the k-th on
RECURSIVE spoke_constraints(_, _, _, _, _)
spoke_constraints(bs, n, k, T, armature) ==
    IF k > n THEN bs
    ELSE spoke_constraints(setup_bone_constraint(bs, spoke_name(k - 1), T, armature),
                           n, k + 1, T, armature)

\* ADH_CreateSpokes.create_spokes
CreateSpokes_create_spokes(mesh, armature, P, T) ==
    LET vert_coordinates == get_vertex_coordinates(mesh, armature)
        cursor_co == VSub(cursor_location, ob_loc[armature])
        layers == arm_layers[armature]
        deselected == [i \in 1..Len(bones[armature]) |->
                          [bones[armature][i] EXCEPT !.select = FALSE]]
        with_root == edit_bones_new(deselected, PRF_ROOT \o Basename, layers)
        root == [with_root[Len(with_root)] EXCEPT
                    !.head = VAdd(cursor_co, Vec(0, 0, -100)),
                    !.tail = cursor_co]
        bs0 == IF P THEN [with_root EXCEPT ![Len(with_root)] = root] ELSE deselected
        parent == IF P THEN Len(with_root) ELSE NoBone
        bs1 == spoke_bones(bs0, vert_coordinates, 1, cursor_co, parent, P, T, layers)
    IN  /\ Len(bones[armature]) <= MaxBones
        /\ bones' = [bones EXCEPT ![armature] =
                        spoke_constraints(bs1, Len(vert_coordinates), 1, T, armature)]
        /\ ob_mode' = [ob_mode EXCEPT ![mesh] = "OBJECT"]
        /\ active_object' = armature
        /\ arm_layers' = [arm_layers EXCEPT ![armature] = set_armature_layers(@, P, T)]
        /\ op_ret' = "FINISHED"

\* create_spoke_tips, lines 903-905: parent and tip of each selected bone from
\* the k-th on
RECURSIVE spoke_tip_bones(_, _, _, _, _, _)
spoke_tip_bones(bs, selected, k, P, T, layers) ==
    IF k > Len(selected) THEN bs
    ELSE spoke_tip_bones(
             setup_bone_tip(setup_bone_parent(bs, selected[k], NoBone, P, layers),
                            selected[k], T, layers),
             selected, k + 1, P, T, layers)

\* create_spoke_tips, lines 908-909: the constraint of each selected pose bone
\* from the k-th on
RECURSIVE spoke_tip_constraints(_, _, _, _, _)
spoke_tip_constraints(bs, selected, k, T, armature) ==
    IF k > Len(selected) THEN bs
    ELSE spoke_tip_constraints(
             setup_bone_constraint(bs, bs[selected[k]].name, T, armature),
             selected, k + 1, T, armature)

\* ADH_CreateSpokes.create_spoke_tips
CreateSpokes_create_spoke_tips(armature, P, T) ==
    LET selected == SelectedIdx(bones[armature])
    IN  /\ Len(bones[armature]) <= MaxBones
        /\ bones' = [bones EXCEPT ![armature] =
                        spoke_tip_constraints(
                            spoke_tip_bones(@, selected, 1, P, T, arm_layers[armature]),
                            selected, 1, T, armature)]
        /\ arm_layers' = [arm_layers EXCEPT ![armature] = set_armature_layers(@, P, T)]
        /\ op_ret' = "FINISHED"
        /\ UNCHANGED <<ob_mode, active_object>>

\* ADH_CreateSpokes.poll
CreateSpokes_poll ==
    /\ active_object # NoObject
    /\ ob_mode[active_object] \in {"EDIT", "POSE"}
    /\ ob_type[active_object] \in {"MESH", "ARMATURE"}
    /\ Len(selected_objects) <= 2

\* ADH_CreateSpokes.execute
CreateSpokes_execute ==
    /\ CreateSpokes_poll
    /\ \E P \in BOOLEAN, T \in BOOLEAN :
          LET obj1 == active_object
              selected == SortedSeq(ob_select \ {obj1})
              obj2 == IF selected # <<>> THEN selected[1] ELSE NoObject
          IN  /\ op_arg' = <<P, T>>
              /\ IF /\ ob_type[obj1] = "MESH" /\ ob_mode[obj1] = "EDIT"
                    /\ obj2 # NoObject /\ ob_type[obj2] = "ARMATURE"
                 THEN CreateSpokes_create_spokes(obj1, obj2, P, T)
                 ELSE IF ob_type[obj1] = "ARMATURE"
                 THEN CreateSpokes_create_spoke_tips(obj1, P, T)
                 ELSE /\ op_ret' = "CANCELLED"
                      /\ UNCHANGED <<ob_mode, active_object, bones, arm_layers>>
    /\ op' = "create_spokes"
    /\ UNCHANGED <<ob_type, ob_select, modifiers, shape_keys, vertex_groups, vg_active,
                   vert_select, vgroup_weight>>
    /\ UNCHANGED <<ob_name, ob_loc, lat_points, vert_co, cursor_location, key_drivers>>
    /\ UNCHANGED <<pasteVars, driverVars, poseVars>>

(***************************************************************************)
(*                          ADH_MapShapeKeysToBones                        *)
(***************************************************************************)

\* "%0.1f" % (1.0 / d) for a distance d # 0 in hundredths: the quotient in
\* tenths, rounded half to even
format_reciprocal(d) ==
    LET q == 1000 \div Abs(d)
        r == 1000 % Abs(d)
        up == 2 * r > Abs(d) \/ (2 * r = Abs(d) /\ q % 2 = 1)
        t == IF up THEN q + 1 ELSE q
    IN  (IF d < 0 THEN <<"-">> ELSE <<>>)
        \o NatStr(t \div 10) \o <<".">> \o NatStr(t % 10)

\* ADH_MapShapeKeysToBones.execute, lines 1177-1178
slider_formula(slider_distance) ==
    IF slider_distance # 0
    THEN <<"a", " ", "*", " ">> \o format_reciprocal(slider_distance)
    ELSE <<"a">>

\* ADH_MapShapeKeysToBones.execute, lines 1179-1202: the drivers after the key
\* blocks from the k-th on; driver_add gives the driver the data path has
\* already, or a new one
RECURSIVE map_shape_keys(_, _, _, _, _, _)
map_shape_keys(drivers, key_blocks, k, armature, slider_axis, formula) ==
    IF k > Len(key_blocks) THEN drivers
    ELSE LET name == key_blocks[k]
             bone == IndexOf(bones[armature], name)
             fc == [data_path |-> name, name |-> <<"a">>, type |-> "TRANSFORMS",
                    id |-> armature, bone_target |-> name,
                    transform_space |-> "LOCAL_SPACE", transform_type |-> slider_axis,
                    driver_type |-> "SCRIPTED", expression |-> formula]
             had == {i \in 1..Len(drivers) : drivers[i].data_path = name}
             skip == k = 1 \/ bone = 0 \/ ~bones[armature][bone].select
             drivers1 == IF skip THEN drivers
                         ELSE IF had = {} THEN Append(drivers, fc)
                         ELSE [i \in 1..Len(drivers) |->
                                  IF i \in had THEN fc ELSE drivers[i]]
         IN  map_shape_keys(drivers1, key_blocks, k + 1, armature, slider_axis, formula)

\* ADH_MapShapeKeysToBones.poll
MapShapeKeysToBones_poll ==
    /\ active_object # NoObject
    /\ ob_type[active_object] \in {"MESH", "LATTICE"}
    /\ Len(selected_objects) = 2

\* The slider distances the user sets, in hundredths
SliderDistances == {0, 20, -30}

\* ADH_MapShapeKeysToBones.execute, lines 1163-1168: the objects taken as mesh
\* and as armature
MapShapeKeys_armature(obj1, obj2) ==
    IF ob_type[obj2] \in {"MESH", "LATTICE"} THEN <<obj2, obj1>> ELSE <<obj1, obj2>>

\* ADH_MapShapeKeysToBones.execute.  An object without shape keys has None for
\* them: AttributeError.
MapShapeKeysToBones_execute ==
    /\ MapShapeKeysToBones_poll
    /\ \E slider_axis \in {"LOC_X", "LOC_Y", "LOC_Z"}, slider_distance \in SliderDistances :
          LET obj1 == selected_objects[1]
              obj2 == selected_objects[2]
              mesh == MapShapeKeys_armature(obj1, obj2)[1]
              armature == MapShapeKeys_armature(obj1, obj2)[2]
          IN  /\ op_arg' = <<slider_axis, slider_distance>>
              /\ IF ob_type[armature] # "ARMATURE"
                 THEN /\ op_ret' = "CANCELLED"
                      /\ UNCHANGED key_drivers
                 ELSE IF shape_keys[mesh] = <<>>
                 THEN /\ op_ret' = "AttributeError"
                      /\ UNCHANGED key_drivers
                 ELSE /\ key_drivers' = [key_drivers EXCEPT ![mesh] =
                            [animation_data |-> TRUE,
                             drivers |-> map_shape_keys(@.drivers, shape_keys[mesh], 1,
                                                        armature, slider_axis,
                                                        slider_formula(slider_distance))]]
                      /\ op_ret' = "FINISHED"
    /\ op' = "map_shape_keys"
    /\ UNCHANGED <<ob_type, ob_select, active_object, ob_mode, modifiers, shape_keys,
                   vertex_groups, vg_active, vert_select, vgroup_weight>>
    /\ UNCHANGED <<ob_name, ob_loc, bones, arm_layers, lat_points, vert_co,
                   cursor_location>>
    /\ UNCHANGED <<pasteVars, driverVars, poseVars>>

(***************************************************************************)
(*         A scene of a mesh, an armature and a lattice for the four       *)
(***************************************************************************)

\* Object 1 is a mesh, 2 an armature, 3 a lattice.
RigObjects == 1..3

RigType(o) == CASE o = 1 -> "MESH" [] o = 2 -> "ARMATURE" [] OTHER -> "LATTICE"

\* The modes an object can be in: one that is not active is in object mode, or
\* in pose mode if an armature
RigModes(o, active) ==
    CASE o = 2 -> IF o = active THEN {"OBJECT", "EDIT", "POSE"} ELSE {"OBJECT", "POSE"}
      [] OTHER -> IF o = active THEN {"OBJECT", "EDIT"} ELSE {"OBJECT"}

\* The mesh is "a" with the vertices (1, 0, 0) and (0, 0, 2), both selected, and
\* with or without shape keys; the armature is "b", one unit along x, with the
\* bones "a" and "b" along z and x; the lattice is "ab" with two points on the x
\* axis.  Any objects are selected, any object active, in any mode it can have.
RigInit ==
    /\ ob_type = [o \in RigObjects |-> RigType(o)]
    /\ ob_select \in SUBSET RigObjects
    /\ active_object \in RigObjects
    /\ ob_mode \in {m \in [RigObjects -> {"OBJECT", "EDIT", "POSE"}] :
                       \A o \in RigObjects : m[o] \in RigModes(o, active_object)}
    /\ modifiers = [o \in RigObjects |-> <<>>]
    /\ shape_keys \in {[o \in RigObjects |-> IF o = 1 THEN ks ELSE <<>>] :
                          ks \in {<<>>, <<<<"r">>, <<"a">>, <<"c">>>>}}
    /\ vertex_groups = [o \in RigObjects |-> <<>>]
    /\ vg_active = [o \in RigObjects |-> -1]
    /\ vert_select = [o \in RigObjects |-> IF o = 1 THEN {1, 2} ELSE {}]
    /\ vgroup_weight = 10
    /\ op_arg = <<>>
    /\ op = None
    /\ op_ret = None
    /\ ob_name = [o \in RigObjects |->
                     CASE o = 1 -> <<"a">> [] o = 2 -> <<"b">> [] OTHER -> <<"a", "b">>]
    /\ ob_loc = [o \in RigObjects |-> IF o = 2 THEN Vec(100, 0, 0) ELSE Vec(0, 0, 0)]
    /\ bones \in {[o \in RigObjects |->
                      IF o = 2
                      THEN <<Bone(<<"a">>, 1 \in sel, Vec(0, 0, 0), Vec(0, 0, 100), NoObject),
                             Bone(second, 2 \in sel, Vec(0, 0, 100), Vec(100, 0, 100),
                                  NoObject)>>
                      ELSE <<>>] :
                  sel \in {{}, {1}, {1, 2}}, second \in {<<"b">>, spoke_name(0)}}
    /\ arm_layers = [o \in RigObjects |-> IF o = 2 THEN {0} ELSE {}]
    /\ lat_points \in {[o \in RigObjects |->
                           IF o = 3
                           THEN <<[co |-> Vec(100, 0, 0), select |-> 1 \in sel],
                                  [co |-> Vec(300, 0, 0), select |-> 2 \in sel]>>
                           ELSE <<>>] :
                       sel \in {{}, {1, 2}}}
    /\ vert_co = [o \in RigObjects |->
                     IF o = 1 THEN <<Vec(100, 0, 0), Vec(0, 0, 200)>> ELSE <<>>]
    /\ cursor_location = Vec(0, 0, 0)
    /\ key_drivers = [o \in RigObjects |-> NoAnimationData]

RigNext ==
    \/ RenameRegex_execute
    \/ CreateHooks_execute
    \/ CreateSpokes_execute
    \/ MapShapeKeysToBones_execute

SpecRigInit == PasteIdle /\ DriverIdle /\ RigInit /\ PoseIdle

SpecRig == SpecRigInit /\ [][RigNext]_vars

\* C4: an operator that returns CANCELLED has changed nothing in the scene, and
\* the four do return CANCELLED: Rename Regex in a mode other than OBJECT, POSE
\* and EDIT_ARMATURE; Create Hooks on an active lattice with no other object
\* selected; Create Spokes with neither an active mesh in edit mode and an
\* armature nor an active armature; Map Shape Keys to Bones when the object
\* taken as armature is no armature.
C4_CancelledChangesNothing ==
    [][ /\ (op_ret' = "CANCELLED") => UNCHANGED sceneData
        /\ ( /\ op' = "rename_regex"
             /\ re_compile_ok(op_arg'[1])
             /\ context_mode \notin {"OBJECT", "POSE", "EDIT_ARMATURE"} )
              => op_ret' = "CANCELLED"
        /\ ( /\ op' = "create_hooks"
             /\ ob_type[active_object] = "LATTICE"
             /\ ob_select \ {active_object} = {} )
              => op_ret' = "CANCELLED"
        /\ ( /\ op' = "create_spokes"
             /\ ob_type[active_object] # "ARMATURE"
             /\ ~ ( /\ ob_type[active_object] = "MESH"
                    /\ ob_mode[active_object] = "EDIT"
                    /\ \E o \in ob_select \ {active_object} :
                          /\ ob_type[o] = "ARMATURE"
                          /\ \A x \in ob_select \ {active_object} : o <= x ) )
              => op_ret' = "CANCELLED"
        /\ ( /\ op' = "map_shape_keys"
             /\ \A o \in ob_select : ob_type[o] # "ARMATURE" )
              => op_ret' = "CANCELLED"
      ]_vars

\* C4 witness: Map Shape Keys to Bones has returned CANCELLED on the mesh and
\* the lattice, after Rename Regex had renamed the mesh.
C4_Witness ==
    /\ op = "map_shape_keys" /\ op_ret = "CANCELLED"
    /\ ob_select = {1, 3}
    /\ ob_name[1] # <<"a">>

\* The new name of an item named n
Substituted(n) == re_sub(op_arg'[1], op_arg'[2], n)

\* C5: in OBJECT, POSE and EDIT_ARMATURE mode Rename Regex returns FINISHED; the
\* new name of each item selected for the mode (object, pose bone, bone) is the
\* substitution into its old name; every other object and bone keeps its name.
C5_RenameRegex ==
    [][ ( /\ op' = "rename_regex"
          /\ context_mode \in {"OBJECT", "POSE", "EDIT_ARMATURE"} ) =>
          /\ op_ret' = "FINISHED"
          /\ \A o \in Objects :
                /\ ob_name'[o] = IF context_mode = "OBJECT" /\ o \in ob_select
                                 THEN Substituted(ob_name[o]) ELSE ob_name[o]
                /\ Len(bones'[o]) = Len(bones[o])
                /\ \A i \in 1..Len(bones[o]) :
                      bones'[o][i].name =
                          IF /\ context_mode # "OBJECT" /\ o = active_object
                             /\ bones[o][i].select
                          THEN Substituted(bones[o][i].name) ELSE bones[o][i].name
      ]_vars

(***************************************************************************)
(*                    Pose mode: what the context gives                    *)
(***************************************************************************)

\* Bound: bones of the armature of the pose scenes.
NumPoseBones == 2

\* The armature whose pose the context gives: the active object if it is an
\* armature in pose mode, else the armature that deforms the active object (of
\* its armature modifiers the first whose armature is selected, else the last)
\* if that armature is in pose mode.
pose_object ==
    IF active_object = NoObject THEN NoObject
    ELSE IF ob_type[active_object] = "ARMATURE"
    THEN IF ob_mode[active_object] = "POSE" THEN active_object ELSE NoObject
    ELSE LET stack == modifiers[active_object]
             deforming == {i \in 1..Len(stack) :
                              stack[i].type = "ARMATURE" /\ stack[i].object # NoObject}
             selected == {i \in deforming : stack[i].object \in ob_select}
             pick == IF selected # {}
                     THEN CHOOSE i \in selected : \A j \in selected : i <= j
                     ELSE CHOOSE i \in deforming : \A j \in deforming : j <= i
         IN  IF deforming = {} THEN NoObject
             ELSE IF ob_mode[stack[pick].object] = "POSE" THEN stack[pick].object
             ELSE NoObject

\* A bone the user can see: it is on a visible layer of its armature
bone_visible(armature, i) == bones[armature][i].layers \cap arm_layers[armature] # {}

\* context.active_pose_bone, as an index into the bones of pose_object
active_pose_bone ==
    IF pose_object = NoObject THEN NoBone
    ELSE IF active_bone[pose_object] # NoBone
            /\ bone_visible(pose_object, active_bone[pose_object])
    THEN active_bone[pose_object]
    ELSE NoBone

\* context.selected_pose_bones, as indices into the bones of pose_object; None
\* where the context has no pose
selected_pose_bones ==
    IF pose_object = NoObject THEN None
    ELSE SortedSeq({i \in 1..Len(bones[pose_object]) :
                       bones[pose_object][i].select /\ bone_visible(pose_object, i)})

\* The elements of a sequence, as a set
Range(s) == {s[i] : i \in 1..Len(s)}

\* The host: in pose mode the user selects or deselects a bone, or makes one
\* the active bone.
HostSelectBone ==
    /\ pose_object # NoObject
    /\ \E i \in 1..Len(bones[pose_object]) :
          \/ /\ bones' = [bones EXCEPT ![pose_object][i].select = ~@]
             /\ UNCHANGED active_bone
          \/ /\ bones' = [bones EXCEPT ![pose_object][i].select = TRUE]
             /\ active_bone' = [active_bone EXCEPT ![pose_object] = i]
    /\ op' = "select_bone"
    /\ op_arg' = <<>>
    /\ op_ret' = None
    /\ UNCHANGED <<ob_type, ob_select, active_object, ob_mode, modifiers, shape_keys,
                   vertex_groups, vg_active, vert_select, vgroup_weight>>
    /\ UNCHANGED <<ob_name, ob_loc, arm_layers, lat_points, vert_co,
                   cursor_location, key_drivers>>
    /\ UNCHANGED <<bone_groups, bg_active, pbone_group, ob_data, ob_layers,
                   ob_draw_type>>
    /\ UNCHANGED <<pasteVars, driverVars>>

(***************************************************************************)
(*                         ADH_UseSameCustomShape                          *)
(***************************************************************************)

\* ADH_UseSameCustomShape.poll
UseSameCustomShape_poll == active_pose_bone # NoBone

\* A variant of same_custom_shape that takes the last selected mesh.
same_custom_shape_last(active_shape, selected) ==
    LET meshes == {k \in 1..Len(selected) : ob_type[selected[k]] = "MESH"}
    IN  IF meshes = {} THEN active_shape
        ELSE selected[CHOOSE k \in meshes : \A j \in meshes : j <= k]

\* ADH_UseSameCustomShape.execute, lines 276-280: the active pose bone's custom
\* shape, or the first selected object that is a mesh
same_custom_shape(active_shape, selected) ==
    LET meshes == {k \in 1..Len(selected) : ob_type[selected[k]] = "MESH"}
    IN  IF meshes = {} THEN active_shape
        ELSE selected[CHOOSE k \in meshes : \A j \in meshes : k <= j]

\* ADH_UseSameCustomShape.execute
UseSameCustomShape_execute ==
    /\ UseSameCustomShape_poll
    /\ IF active_pose_bone = NoBone
       THEN /\ op_ret' = "CANCELLED"
            /\ UNCHANGED bones
       ELSE LET custom_shape ==
                    same_custom_shape(bones[pose_object][active_pose_bone].custom_shape,
                                      selected_objects)
            IN  /\ bones' = [bones EXCEPT ![pose_object] =
                                [i \in 1..Len(@) |->
                                    IF i \in Range(selected_pose_bones)
                                    THEN [@[i] EXCEPT !.custom_shape = custom_shape]
                                    ELSE @[i]]]
                /\ op_ret' = "FINISHED"
    /\ op' = "use_same_shape"
    /\ op_arg' = <<>>
    /\ UNCHANGED <<ob_type, ob_select, active_object, ob_mode, modifiers, shape_keys,
                   vertex_groups, vg_active, vert_select, vgroup_weight>>
    /\ UNCHANGED <<ob_name, ob_loc, arm_layers, lat_points, vert_co,
                   cursor_location, key_drivers>>
    /\ UNCHANGED poseVars
    /\ UNCHANGED <<pasteVars, driverVars>>

(***************************************************************************)
(*                          ADH_CreateCustomShape                          *)
(***************************************************************************)

\* Bound: objects in the pose scene, the widgets made by the operator included.
MaxPoseObjects == 4

\* The mesh of an object: vertices (triples of integers, in units of 1e-7),
\* edges and faces
Mesh(verts, edges, faces) == [verts |-> verts, edges |-> edges, faces |-> faces]

\* The data of an object that has no mesh, and a mesh without geometry
NoMesh == Mesh(<<>>, <<>>, <<>>)

\* 'WGT-', the default of widget_prefix
WGT == <<"W", "G", "T", "-">>

\* The vertex tables of the eight built-in shapes.  A coordinate is in units of
\* 1e-7: the coefficient of the source rounded to six decimals, times size in
\* tenths; a coefficient the source does not multiply by size is taken times 10,
\* that is at size 1.0.

\* create_sphere_widget, lines 417-419: verts, edges and faces
sphere_pydata(size) ==
    Mesh(<<
        <<-353553 * size, -353553 * size, 0 * size>>,
        <<-500000 * size, 0 * size, 0 * size>>,
        <<-353553 * size, 353553 * size, 0 * size>>,
        <<0 * size, 500000 * size, 0 * size>>,
        <<-250000 * size, -353553 * size, 250000 * size>>,
        <<-353553 * size, 0 * size, 353553 * size>>,
        <<-250000 * size, 353553 * size, 250000 * size>>,
        <<0 * size, -353553 * size, 353553 * size>>,
        <<0 * size, 0 * size, 500000 * size>>,
        <<0 * size, 353553 * size, 353553 * size>>,
        <<250000 * size, -353553 * size, 250000 * size>>,
        <<353554 * size, 0 * size, 353553 * size>>,
        <<250000 * size, 353553 * size, 250000 * size>>,
        <<353553 * size, -353553 * size, 0 * size>>,
        <<500000 * size, 0 * size, 0 * size>>,
        <<353553 * size, 353553 * size, 0 * size>>,
        <<250000 * size, -353553 * size, -250000 * size>>,
        <<353553 * size, 0 * size, -353554 * size>>,
        <<250000 * size, 353553 * size, -250000 * size>>,
        <<0 * size, -353553 * size, -353553 * size>>,
        <<0 * size, 0 * size, -500000 * size>>,
        <<0 * size, 353553 * size, -353553 * size>>,
        <<0 * size, -500000 * size, 0 * size>>,
        <<-250000 * size, -353553 * size, -250000 * size>>,
        <<-353554 * size, 0 * size, -353553 * size>>,
        <<-250000 * size, 353553 * size, -250000 * size>>
         >>,
         <<
        <<0, 1>>, <<1, 2>>, <<2, 3>>, <<4, 5>>, <<5, 6>>, <<2, 6>>, <<0, 4>>,
        <<5, 1>>, <<7, 8>>, <<8, 9>>, <<6, 9>>, <<5, 8>>, <<7, 4>>,
        <<10, 11>>, <<11, 12>>, <<9, 12>>, <<10, 7>>, <<11, 8>>, <<13, 14>>,
        <<14, 15>>, <<12, 15>>, <<13, 10>>, <<14, 11>>, <<16, 17>>,
        <<17, 18>>, <<15, 18>>, <<16, 13>>, <<17, 14>>, <<19, 20>>,
        <<20, 21>>, <<18, 21>>, <<16, 19>>, <<20, 17>>, <<22, 23>>,
        <<23, 24>>, <<24, 25>>, <<21, 25>>, <<20, 24>>, <<23, 19>>,
        <<22, 0>>, <<22, 4>>, <<6, 3>>, <<22, 7>>, <<9, 3>>, <<22, 10>>,
        <<12, 3>>, <<22, 13>>, <<15, 3>>, <<22, 16>>, <<18, 3>>, <<22, 19>>,
        <<21, 3>>, <<25, 3>>, <<25, 2>>, <<0, 23>>, <<1, 24>>
         >>,
         <<>>)

\* create_ring_widget, lines 437-439: verts, edges and faces
ring_pydata(size) ==
    Mesh(<<
        <<0 * size, 0 * size, 500000 * size>>,
        <<-129410 * size, 0 * size, 482963 * size>>,
        <<-250000 * size, 0 * size, 433013 * size>>,
        <<-353553 * size, 0 * size, 353553 * size>>,
        <<-433013 * size, 0 * size, 250000 * size>>,
        <<-482963 * size, 0 * size, 129410 * size>>,
        <<-500000 * size, 0 * size, 0 * size>>,
        <<-482963 * size, 0 * size, -129409 * size>>,
        <<-433013 * size, 0 * size, -250000 * size>>,
        <<-353553 * size, 0 * size, -353553 * size>>,
        <<-250000 * size, 0 * size, -433013 * size>>,
        <<-129410 * size, 0 * size, -482963 * size>>,
        <<0 * size, 0 * size, -500000 * size>>,
        <<129409 * size, 0 * size, -482963 * size>>,
        <<250000 * size, 0 * size, -433013 * size>>,
        <<353553 * size, 0 * size, -353554 * size>>,
        <<433013 * size, 0 * size, -250000 * size>>,
        <<482963 * size, 0 * size, -129410 * size>>,
        <<500000 * size, 0 * size, 0 * size>>,
        <<482963 * size, 0 * size, 129409 * size>>,
        <<433013 * size, 0 * size, 250000 * size>>,
        <<353554 * size, 0 * size, 353553 * size>>,
        <<250000 * size, 0 * size, 433013 * size>>,
        <<129410 * size, 0 * size, 482963 * size>>
         >>,
         <<
        <<1, 0>>, <<2, 1>>, <<3, 2>>, <<4, 3>>, <<5, 4>>, <<6, 5>>, <<7, 6>>,
        <<8, 7>>, <<9, 8>>, <<10, 9>>, <<11, 10>>, <<12, 11>>, <<13, 12>>,
        <<14, 13>>, <<15, 14>>, <<16, 15>>, <<17, 16>>, <<18, 17>>,
        <<19, 18>>, <<20, 19>>, <<21, 20>>, <<22, 21>>, <<23, 22>>, <<0, 23>>
         >>,
         <<>>)

\* create_square_widget, lines 456-458: verts, edges and faces
square_pydata(size) ==
    Mesh(<<
        <<500000 * size, -500000 * size, 0 * size>>,
        <<-500000 * size, -500000 * size, 0 * size>>,
        <<500000 * size, 500000 * size, 0 * size>>,
        <<-500000 * size, 500000 * size, 0 * size>>
         >>,
         <<
        <<0, 1>>, <<2, 3>>, <<0, 2>>, <<3, 1>>
         >>,
         <<>>)

\* create_triangle_widget, lines 475-477: verts, edges and faces
triangle_pydata(size) ==
    Mesh(<<
        <<0 * size, 0 * size, 0 * 10>>,
        <<600000 * size, 1000000 * size, 0 * 10>>,
        <<-600000 * size, 1000000 * size, 0 * 10>>
         >>,
         <<
        <<1, 2>>, <<0, 1>>, <<2, 0>>
         >>,
         <<>>)

\* create_bidirection_widget, lines 494-496: verts, edges and faces
bidirection_pydata(size) ==
    Mesh(<<
        <<0 * size, -500000 * size, 0 * size>>,
        <<0 * size, 500000 * size, 0 * size>>,
        <<150000 * size, -350000 * size, 0 * size>>,
        <<-150000 * size, 350000 * size, 0 * size>>,
        <<150000 * size, 350000 * size, 0 * size>>,
        <<-150000 * size, -350000 * size, 0 * size>>
         >>,
         <<
        <<2, 0>>, <<4, 1>>, <<5, 0>>, <<3, 1>>, <<0, 1>>
         >>,
         <<>>)

\* create_box_widget, lines 513-515: verts, edges and faces
box_pydata(size) ==
    Mesh(<<
        <<-500000 * size, -500000 * 10, -500000 * size>>,
        <<-500000 * size, 500000 * 10, -500000 * size>>,
        <<500000 * size, 500000 * 10, -500000 * size>>,
        <<500000 * size, -500000 * 10, -500000 * size>>,
        <<-500000 * size, -500000 * 10, 500000 * size>>,
        <<-500000 * size, 500000 * 10, 500000 * size>>,
        <<500000 * size, 500000 * 10, 500000 * size>>,
        <<500000 * size, -500000 * 10, 500000 * size>>
         >>,
         <<
        <<4, 5>>, <<5, 1>>, <<1, 0>>, <<0, 4>>, <<5, 6>>, <<6, 2>>, <<2, 1>>,
        <<6, 7>>, <<7, 3>>, <<3, 2>>, <<7, 4>>, <<0, 3>>
         >>,
         <<>>)

\* create_fourways_widget, lines 532-534: verts, edges and faces
fourways_pydata(size) ==
    Mesh(<<
        <<582963 * size, 0 * 10, 129410 * size>>,
        <<-129410 * size, 0 * 10, -482963 * size>>,
        <<-250000 * size, 0 * 10, -433013 * size>>,
        <<-353553 * size, 0 * 10, -353553 * size>>,
        <<-433013 * size, 0 * 10, -250000 * size>>,
        <<-482963 * size, 0 * 10, -129410 * size>>,
        <<582963 * size, 0 * 10, -129409 * size>>,
        <<-482963 * size, 0 * 10, 129409 * size>>,
        <<-433013 * size, 0 * 10, 250000 * size>>,
        <<-353553 * size, 0 * 10, 353553 * size>>,
        <<-250000 * size, 0 * 10, 433013 * size>>,
        <<-129410 * size, 0 * 10, 482963 * size>>,
        <<-129410 * size, 0 * 10, 582963 * size>>,
        <<129409 * size, 0 * 10, 482963 * size>>,
        <<250000 * size, 0 * 10, 433013 * size>>,
        <<353553 * size, 0 * 10, 353554 * size>>,
        <<433013 * size, 0 * 10, 250000 * size>>,
        <<482963 * size, 0 * 10, 129410 * size>>,
        <<129409 * size, 0 * 10, 582963 * size>>,
        <<482963 * size, 0 * 10, -129409 * size>>,
        <<433013 * size, 0 * 10, -250000 * size>>,
        <<353554 * size, 0 * 10, -353553 * size>>,
        <<250000 * size, 0 * 10, -433013 * size>>,
        <<129410 * size, 0 * 10, -482963 * size>>,
        <<-194115 * size, 0 * 10, 582963 * size>>,
        <<0 * size, 0 * 10, 756000 * size>>,
        <<194114 * size, 0 * 10, 582963 * size>>,
        <<582963 * size, 0 * 10, 194115 * size>>,
        <<756000 * size, 0 * 10, 0 * size>>,
        <<582963 * size, 0 * 10, -194114 * size>>,
        <<-582963 * size, 0 * 10, -194114 * size>>,
        <<-756000 * size, 0 * 10, 0 * size>>,
        <<-582963 * size, 0 * 10, 194114 * size>>,
        <<0 * size, 0 * 10, -756000 * size>>,
        <<-194114 * size, 0 * 10, -582963 * size>>,
        <<194115 * size, 0 * 10, -582963 * size>>,
        <<-582963 * size, 0 * 10, 129409 * size>>,
        <<-582963 * size, 0 * 10, -129410 * size>>,
        <<129410 * size, 0 * 10, -582963 * size>>,
        <<-129410 * size, 0 * 10, -582963 * size>>
         >>,
         <<
        <<2, 1>>, <<3, 2>>, <<4, 3>>, <<5, 4>>, <<8, 7>>, <<9, 8>>,
        <<10, 9>>, <<11, 10>>, <<39, 34>>, <<14, 13>>, <<15, 14>>,
        <<16, 15>>, <<17, 16>>, <<38, 23>>, <<37, 5>>, <<20, 19>>,
        <<21, 20>>, <<22, 21>>, <<23, 22>>, <<36, 32>>, <<25, 24>>,
        <<26, 25>>, <<0, 17>>, <<18, 13>>, <<12, 24>>, <<28, 27>>,
        <<29, 28>>, <<6, 29>>, <<6, 19>>, <<0, 27>>, <<31, 30>>, <<32, 31>>,
        <<12, 11>>, <<36, 7>>, <<37, 30>>, <<34, 33>>, <<33, 35>>,
        <<38, 35>>, <<18, 26>>, <<39, 1>>
         >>,
         <<>>)

\* create_fourgaps_widget, lines 551-553: verts, edges and faces
fourgaps_pydata(size) ==
    Mesh(<<
        <<-194114 * size, 0 * 10, -582963 * size>>,
        <<-307216 * size, 0 * 10, -532113 * size>>,
        <<-434469 * size, 0 * 10, -434469 * size>>,
        <<-532113 * size, 0 * 10, -307216 * size>>,
        <<-582963 * size, 0 * 10, -194114 * size>>,
        <<-582963 * size, 0 * 10, 194114 * size>>,
        <<-532113 * size, 0 * 10, 307216 * size>>,
        <<-434469 * size, 0 * 10, 434469 * size>>,
        <<-307216 * size, 0 * 10, 532113 * size>>,
        <<-194115 * size, 0 * 10, 582963 * size>>,
        <<194114 * size, 0 * 10, 582963 * size>>,
        <<307215 * size, 0 * 10, 532113 * size>>,
        <<434468 * size, 0 * 10, 434469 * size>>,
        <<532113 * size, 0 * 10, 307216 * size>>,
        <<582963 * size, 0 * 10, 194115 * size>>,
        <<582963 * size, 0 * 10, -194114 * size>>,
        <<532113 * size, 0 * 10, -307215 * size>>,
        <<434469 * size, 0 * 10, -434468 * size>>,
        <<307216 * size, 0 * 10, -532113 * size>>,
        <<194115 * size, 0 * 10, -582963 * size>>
         >>,
         <<
        <<1, 0>>, <<2, 1>>, <<3, 2>>, <<4, 3>>, <<6, 5>>, <<7, 6>>, <<8, 7>>,
        <<9, 8>>, <<11, 10>>, <<12, 11>>, <<13, 12>>, <<14, 13>>, <<16, 15>>,
        <<17, 16>>, <<18, 17>>, <<19, 18>>
         >>,
         <<>>)

\* The items of widget_shape
WidgetShapes ==
    {"sphere", "ring", "square", "triangle", "bidirection", "box", "fourways",
     "fourgaps", "selected"}

\* A variant of create_widget_pydata that gives Four-Gaps the table of Ring.
create_widget_pydata_ring(widget_shape, size) ==
    CASE widget_shape = "sphere" -> sphere_pydata(size)
      [] widget_shape = "ring" -> ring_pydata(size)
      [] widget_shape = "square" -> square_pydata(size)
      [] widget_shape = "triangle" -> triangle_pydata(size)
      [] widget_shape = "bidirection" -> bidirection_pydata(size)
      [] widget_shape = "box" -> box_pydata(size)
      [] widget_shape = "fourways" -> fourways_pydata(size)
      [] widget_shape = "fourgaps" -> ring_pydata(size)
      [] OTHER -> None

\* getattr(self, "create_%s_widget" % self.widget_shape, None), as the table of
\* the function found; None for 'selected', which has no function
create_widget_pydata(widget_shape, size) ==
    CASE widget_shape = "sphere" -> sphere_pydata(size)
      [] widget_shape = "ring" -> ring_pydata(size)
      [] widget_shape = "square" -> square_pydata(size)
      [] widget_shape = "triangle" -> triangle_pydata(size)
      [] widget_shape = "bidirection" -> bidirection_pydata(size)
      [] widget_shape = "box" -> box_pydata(size)
      [] widget_shape = "fourways" -> fourways_pydata(size)
      [] widget_shape = "fourgaps" -> fourgaps_pydata(size)
      [] OTHER -> None

\* mesh.transform(trans_mat * rot_mat): a rotation about X by rot degrees, rot
\* a multiple of 90, then a translation along Y by pos tenths
mesh_transform(mesh, pos, rot) ==
    LET cos == CASE rot = 0 -> 1 [] rot = 180 -> -1 [] OTHER -> 0
        sin == CASE rot = 90 -> 1 [] rot = -90 -> -1 [] OTHER -> 0
    IN  [mesh EXCEPT !.verts =
            [k \in 1..Len(@) |->
                <<@[k][1],
                  @[k][2] * cos - @[k][3] * sin + pos * 1000000,
                  @[k][2] * sin + @[k][3] * cos>>]]

\* create_<shape>_widget, after create_widget has given the object: the mesh
\* from_pydata and transform leave in obj.data
create_widget_mesh(widget_shape, size, pos, rot) ==
    mesh_transform(create_widget_pydata(widget_shape, size), pos, rot)

\* create_widget_from_object, lines 370-375: the mesh of widget_src, brought
\* from the space of widget_src to the space of the bone.  Objects are not
\* rotated or scaled and the bones of the pose scene lie along Y without roll,
\* so the three matrices are translations (locations are in hundredths).
widget_data_from_object(rig, bone, widget_src) ==
    LET d == VSub(ob_loc[widget_src], VAdd(ob_loc[rig], bones[rig][bone].head))
    IN  [ob_data[widget_src] EXCEPT !.verts =
            [k \in 1..Len(@) |->
                <<@[k][1] + d[1] * 100000, @[k][2] + d[2] * 100000,
                  @[k][3] + d[3] * 100000>>]]

\* scene.objects[obj_name] where obj_name is in scene.objects, else NoObject
scene_object(obj_name) ==
    IF \E o \in Objects : ob_name[o] = obj_name
    THEN CHOOSE o \in Objects : ob_name[o] = obj_name
    ELSE NoObject

\* ADH_CreateCustomShape.poll
CreateCustomShape_poll == context_mode = "POSE" /\ active_pose_bone # NoBone

\* What execute raises, None if it runs to its end: calling func when it is
\* None (line 583) is a TypeError, and create_widget_from_object reads the
\* name mesh, which nothing defines, when the object exists (line 379).
create_custom_shape_raises(widget_shape, widget_srcs, obj_name) ==
    IF widget_shape # "selected" THEN None
    ELSE IF Len(widget_srcs) # 1 THEN "TypeError"
    ELSE IF scene_object(obj_name) # NoObject THEN "NameError"
    ELSE None

\* f with the value x for one more object, when an object is created
Linked(created, f, x) == IF created THEN Append(f, x) ELSE f

\* ADH_CreateCustomShape.execute with the properties drawn from the given sets;
\* widget_layers has its default, the last layer.  A widget is made only while
\* the scene has fewer than MaxPoseObjects objects.
CreateCustomShape(shapes, sizes, positions, rotations, prefixes) ==
    /\ CreateCustomShape_poll
    /\ \E widget_shape \in shapes, widget_size \in sizes, widget_pos \in positions,
          widget_rot \in rotations, widget_prefix \in prefixes :
          LET rig == active_object
              bone == active_pose_bone
              widget_srcs == SelectSeq(selected_objects,
                                       LAMBDA o : ob_type[o] = "MESH")
              obj_name == widget_prefix \o bones[rig][bone].name
              raised == create_custom_shape_raises(widget_shape, widget_srcs, obj_name)
              created == scene_object(obj_name) = NoObject
              obj == IF created THEN Len(ob_type) + 1 ELSE scene_object(obj_name)
              from_object == widget_shape = "selected"
              data == IF from_object
                      THEN widget_data_from_object(rig, bone, widget_srcs[1])
                      ELSE create_widget_mesh(widget_shape, widget_size,
                                              widget_pos, widget_rot)
              at_bone == VAdd(ob_loc[rig], bones[rig][bone].head)
          IN  /\ op_arg' = <<widget_shape, widget_size, widget_pos, widget_rot,
                             widget_prefix>>
              /\ IF raised # None
                 THEN /\ op_ret' = raised
                      /\ UNCHANGED sceneData
                 ELSE /\ created => Len(ob_type) < MaxPoseObjects
                      /\ op_ret' = "FINISHED"
                      /\ ob_type' = Linked(created, ob_type, "MESH")
                      /\ ob_mode' = Linked(created, ob_mode, "OBJECT")
                      /\ ob_name' = Linked(created, ob_name, obj_name)
                      /\ ob_loc' = IF created THEN Append(ob_loc, at_bone) ELSE ob_loc
                      /\ ob_data' = IF created THEN Append(ob_data, data)
                                    ELSE [ob_data EXCEPT ![obj] = data]
                      /\ ob_layers' = Linked(created, ob_layers, {19})
                      /\ ob_draw_type' = Linked(created, ob_draw_type,
                                                IF from_object THEN "WIRE" ELSE "TEXTURED")
                      /\ bones' = Linked(created,
                                    [bones EXCEPT ![rig] =
                                        [i \in 1..Len(@) |->
                                            IF i \in Range(selected_pose_bones)
                                               \/ (from_object /\ i = bone)
                                            THEN [@[i] EXCEPT !.custom_shape = obj]
                                            ELSE @[i]]],
                                    <<>>)
                      /\ modifiers' = Linked(created, modifiers, <<>>)
                      /\ shape_keys' = Linked(created, shape_keys, <<>>)
                      /\ vertex_groups' = Linked(created, vertex_groups, <<>>)
                      /\ vg_active' = Linked(created, vg_active, -1)
                      /\ vert_select' = Linked(created, vert_select, {})
                      /\ arm_layers' = Linked(created, arm_layers, {})
                      /\ lat_points' = Linked(created, lat_points, <<>>)
                      /\ vert_co' = Linked(created, vert_co, <<>>)
                      /\ key_drivers' = Linked(created, key_drivers, NoAnimationData)
                      /\ active_bone' = Linked(created, active_bone, NoBone)
                      /\ bone_groups' = Linked(created, bone_groups, <<>>)
                      /\ bg_active' = Linked(created, bg_active, 0)
                      /\ pbone_group' = Linked(created, pbone_group, <<>>)
                      /\ UNCHANGED <<ob_select, active_object, vgroup_weight,
                                     cursor_location>>
    /\ op' = "create_shape"
    /\ UNCHANGED <<pasteVars, driverVars>>

\* ADH_CreateCustomShape.execute in the pose scene: a built-in shape or the
\* selected object, at the default size, position, rotation and prefix
CreateCustomShape_execute ==
    CreateCustomShape({"box", "selected"}, {10}, {5}, {0}, {WGT})

(***************************************************************************)
(*                             The pose scene                              *)
(***************************************************************************)

\* The names of the bones of the pose scene, in order
PoseBoneNames == <<<<"a">>, <<"b">>, <<"c">>, <<"d">>, <<"e">>>>

PoseObjects == 1..3

\* An armature of NumPoseBones bones in pose mode, the first bone active or
\* none, each bone with the first mesh as custom shape or with none; a mesh
\* named as the widget of the first bone; a second mesh, deformed by the
\* armature.  One edge is the geometry of both meshes; the bones lie along Y.
\* Each object has the vertex groups given for it, the first of them active.
PoseScene(groups) ==
    /\ ob_type = [o \in PoseObjects |-> IF o = 1 THEN "ARMATURE" ELSE "MESH"]
    /\ ob_select = {1}
    /\ active_object = 1
    /\ ob_mode = [o \in PoseObjects |-> IF o = 1 THEN "POSE" ELSE "OBJECT"]
    /\ modifiers = [o \in PoseObjects |->
                       IF o = 3
                       THEN <<[Modifier("Armature", 0, "ARMATURE") EXCEPT !.object = 1]>>
                       ELSE <<>>]
    /\ shape_keys = [o \in PoseObjects |-> <<>>]
    /\ vertex_groups = groups
    /\ vg_active = [o \in PoseObjects |-> IF groups[o] = <<>> THEN -1 ELSE 0]
    /\ vert_select = [o \in PoseObjects |-> {}]
    /\ vgroup_weight = 10
    /\ op_arg = <<>>
    /\ op = None
    /\ op_ret = None
    /\ ob_name = [o \in PoseObjects |->
                     CASE o = 1 -> <<"r", "i", "g">>
                       [] o = 2 -> WGT \o PoseBoneNames[1]
                       [] OTHER -> <<"o", "3">>]
    /\ ob_loc = [o \in PoseObjects |-> Vec(0, 0, 0)]
    /\ bones \in {[o \in PoseObjects |->
                      IF o = 1
                      THEN [i \in 1..NumPoseBones |->
                               Bone(PoseBoneNames[i], FALSE, Vec(0, 0, 0),
                                    Vec(0, 100, 0), f[i])]
                      ELSE <<>>] :
                  f \in [1..NumPoseBones -> {NoObject, 2}]}
    /\ arm_layers = [o \in PoseObjects |-> IF o = 1 THEN {0} ELSE {}]
    /\ lat_points = [o \in PoseObjects |-> <<>>]
    /\ vert_co = [o \in PoseObjects |-> <<>>]
    /\ cursor_location = Vec(0, 0, 0)
    /\ key_drivers = [o \in PoseObjects |-> NoAnimationData]
    /\ active_bone \in {[o \in PoseObjects |-> IF o = 1 THEN b ELSE NoBone] :
                          b \in {NoBone, 1}}
    /\ bone_groups = [o \in PoseObjects |-> <<>>]
    /\ bg_active = [o \in PoseObjects |-> 0]
    /\ pbone_group = [o \in PoseObjects |->
                         IF o = 1 THEN [i \in 1..NumPoseBones |-> 0] ELSE <<>>]
    /\ ob_data = [o \in PoseObjects |->
                     IF o = 1 THEN NoMesh
                     ELSE Mesh(<<Vec(0, 0, 0), Vec(0, 10000000, 0)>>, <<<<0, 1>>>>, <<>>)]
    /\ ob_layers = [o \in PoseObjects |-> {0}]
    /\ ob_draw_type = [o \in PoseObjects |-> "TEXTURED"]

\* The pose scene without vertex groups
PoseInit == PoseScene([o \in PoseObjects |-> <<>>])

PoseNext ==
    \/ UseSameCustomShape_execute
    \/ CreateCustomShape_execute
    \/ HostSelect
    \/ HostSelectBone

SpecPoseInit == PasteIdle /\ DriverIdle /\ PoseInit

SpecPose == SpecPoseInit /\ [][PoseNext]_vars

C12_CreateCustomShape ==
    [][ (op' = "create_shape" /\ CreateCustomShape_poll) =>
          LET obj_name == op_arg'[5] \o bones[pose_object][active_pose_bone].name
              objects_after == DOMAIN ob_type'
          IN  /\ op_ret' = "FINISHED"
              /\ \E widget \in objects_after :
                    /\ ob_name'[widget] = obj_name
                    /\ \A i \in Range(selected_pose_bones) :
                          bones'[pose_object][i].custom_shape = widget
                    /\ scene_object(obj_name) # NoObject =>
                          /\ widget = scene_object(obj_name)
                          /\ objects_after = Objects
      ]_vars

(***************************************************************************)
(*            ADH_CreateCustomShape: the widgets it can generate           *)
(***************************************************************************)

\* The values of widget_size (from 0 to 2, in tenths), widget_pos (from -.5 to
\* 1.5, in tenths) and widget_rot (from -90 to 90) the widgets are generated
\* with
WidgetSizes == {0, 10, 20}

WidgetPositions == {5, 15}

WidgetRotations == {0, 90}

\* ADH_CreateCustomShape.invoke: execute with any built-in shape, size,
\* position and rotation, and the default prefix
CreateCustomShape_invoke ==
    CreateCustomShape(WidgetShapes \ {"selected"}, WidgetSizes, WidgetPositions, WidgetRotations,
                      {WGT})

\* The pose scene with the first bone active and selected
WidgetsInit ==
    /\ PoseInit
    /\ active_bone[1] = 1

WidgetsNext == CreateCustomShape_invoke

SpecWidgetsInit == PasteIdle /\ DriverIdle /\ WidgetsInit

SpecWidgets == SpecWidgetsInit /\ [][WidgetsNext]_vars

\* The number of vertices a shape is advertised with
AdvertisedSize(widget_shape) ==
    CASE widget_shape = "sphere" -> 26
      [] widget_shape = "ring" -> 24
      [] widget_shape = "square" -> 4
      [] widget_shape = "triangle" -> 3
      [] widget_shape = "bidirection" -> 6
      [] widget_shape = "box" -> 8
      [] widget_shape = "fourways" -> 40
      [] widget_shape = "fourgaps" -> 20

\* The widget object of the operator that ran last
LastWidget == scene_object(op_arg[5] \o bones[pose_object][active_pose_bone].name)

\* C13: the mesh of a widget generated from a built-in shape, at any size,
\* position and rotation, has the number of vertices the shape is advertised
\* with and no face, and each of its edges is a pair of two different indices
\* between 0 and the number of vertices less one.
C13_WidgetTables ==
    (op = "create_shape" /\ op_ret = "FINISHED" /\ op_arg[1] # "selected") =>
        LET mesh == ob_data[LastWidget]
        IN  /\ Len(mesh.verts) = AdvertisedSize(op_arg[1])
            /\ \A k \in 1..Len(mesh.verts) : Len(mesh.verts[k]) = 3
            /\ mesh.faces = <<>>
            /\ mesh.edges # <<>>
            /\ \A k \in 1..Len(mesh.edges) :
                  /\ Len(mesh.edges[k]) = 2
                  /\ mesh.edges[k][1] # mesh.edges[k][2]
                  /\ mesh.edges[k][1] \in 0..(Len(mesh.verts) - 1)
                  /\ mesh.edges[k][2] \in 0..(Len(mesh.verts) - 1)

\* C13 witness: a Four-Gaps widget of 20 vertices and 16 edges has been
\* generated at size 2.0, turned by 90 degrees.
C13_Witness ==
    /\ op = "create_shape" /\ op_ret = "FINISHED"
    /\ op_arg[1] = "fourgaps" /\ op_arg[2] = 20 /\ op_arg[4] = 90
    /\ Len(ob_data[LastWidget].verts) = 20
    /\ Len(ob_data[LastWidget].edges) = 16

\* C14: the mesh of a widget generated from a built-in shape is the shape at
\* size 1.0 with every coordinate of every vertex multiplied by widget_size,
\* then rotated and translated.
C14_WidgetSize ==
    (op = "create_shape" /\ op_ret = "FINISHED" /\ op_arg[1] # "selected") =>
        LET unit == create_widget_pydata(op_arg[1], 10)
            scaled == [unit EXCEPT !.verts =
                          [k \in 1..Len(@) |->
                              <<(@[k][1] * op_arg[2]) \div 10,
                                (@[k][2] * op_arg[2]) \div 10,
                                (@[k][3] * op_arg[2]) \div 10>>]]
        IN  ob_data[LastWidget] = mesh_transform(scaled, op_arg[3], op_arg[4])

\* C15: on an active armature Create Hooks adds one bone for each selected
\* bone B and no other: it is named 'hook-' + B.name, has the head, tail and
\* roll of B, no parent, does not deform and is on hook_layers; B gets one more
\* constraint, a COPY_TRANSFORMS in local owner and target space on that name
\* in the armature; a bone that is not selected is left as it was.
C15_HookOnBone ==
    [][ (op' = "create_hooks" /\ ob_type[active_object] = "ARMATURE") =>
          LET armature == active_object
              before == bones[armature]
              after == bones'[armature]
              selected == {i \in 1..Len(before) : before[i].select}
              added == (Len(before) + 1)..Len(after)
          IN  /\ op_ret' = "FINISHED"
              /\ Len(after) = Len(before) + Cardinality(selected)
              /\ \A i \in selected :
                    /\ Cardinality({j \in added :
                           after[j].name = PRF_HOOK \o before[i].name}) = 1
                    /\ \A j \in added :
                          after[j].name = PRF_HOOK \o before[i].name =>
                              /\ after[j].head = before[i].head
                              /\ after[j].tail = before[i].tail
                              /\ after[j].roll = before[i].roll
                              /\ after[j].parent = NoBone
                              /\ ~after[j].use_deform
                              /\ after[j].layers = op_arg'[1]
                    /\ after[i] = [before[i] EXCEPT !.constraints =
                           Append(@, [type |-> "COPY_TRANSFORMS",
                                      owner_space |-> "LOCAL",
                                      target_space |-> "LOCAL",
                                      target |-> armature,
                                      subtarget |-> PRF_HOOK \o before[i].name])]
              /\ \A i \in (1..Len(before)) \ selected : after[i] = before[i]
      ]_vars

\* C16: on an active mesh in edit mode with an armature as the other selected
\* object Create Spokes adds, for the i-th selected vertex (from 0, in vertex
\* order), one bone named '<basename>.<i>': its head is at the 3D cursor and
\* its tail at the vertex, both in the space of the armature, it deforms and
\* is on spoke_layers.  With Parent off it has no parent; with Parent on it is
\* a connected child of the one new bone named 'root-' + basename.
C16_CreateSpokes ==
    [][ ( /\ op' = "create_spokes"
          /\ ob_type[active_object] = "MESH" /\ ob_mode[active_object] = "EDIT"
          /\ Cardinality(ob_select \ {active_object}) = 1
          /\ \A o \in ob_select \ {active_object} : ob_type[o] = "ARMATURE" ) =>
          LET mesh == active_object
              armature == CHOOSE o \in ob_select \ {active_object} : TRUE
              before == bones[armature]
              after == bones'[armature]
              added == (Len(before) + 1)..Len(after)
              verts == SortedSeq(vert_select[mesh])
              spokes(i) == {j \in added : after[j].name = spoke_name(i)}
              roots == {j \in added : after[j].name = PRF_ROOT \o Basename}
          IN  /\ op_ret' = "FINISHED"
              /\ \A j \in added :
                    after[j].use_deform /\ after[j].layers = SpokeLayers =>
                        \E i \in 0..(Len(verts) - 1) : j \in spokes(i)
              /\ \A i \in 0..(Len(verts) - 1) :
                    /\ Cardinality(spokes(i)) = 1
                    /\ \A j \in spokes(i) :
                          /\ after[j].head = VSub(cursor_location, ob_loc[armature])
                          /\ after[j].tail = VSub(VAdd(vert_co[mesh][verts[i + 1]],
                                                       ob_loc[mesh]), ob_loc[armature])
                          /\ after[j].use_deform
                          /\ after[j].layers = SpokeLayers
                          /\ IF op_arg'[1]
                             THEN /\ Cardinality(roots) = 1
                                  /\ after[j].parent \in roots
                                  /\ after[j].use_connect
                             ELSE after[j].parent = NoBone
      ]_vars

(***************************************************************************)
(*                           ADH_CreateBoneGroup                           *)
(***************************************************************************)

\* Bound: the themes random_theme chooses from, the first of the source's 15.
NumThemes == 2

\* ADH_CreateBoneGroup.random_theme: the values random.choice can give; k is
\* 'THEME01', 'THEME02', ...
random_theme == 1..NumThemes

\* ADH_CreateBoneGroup.poll
CreateBoneGroup_poll == active_pose_bone # NoBone

\* bpy.ops.pose.group_assign() with its default type 0 on the pose of
\* `armature`: a new group is added and made active, and the selected pose
\* bones are put into it.  The result is the groups, the active index and the
\* group of each bone.
pose_group_assign(armature) ==
    LET groups == Append(bone_groups[armature],
                         [name |-> <<"G", "r", "o", "u", "p">>, color_set |-> 0])
    IN  [bone_groups |-> groups,
         active |-> Len(groups),
         pbone_group |-> [i \in 1..Len(bones[armature]) |->
                             IF i \in Range(selected_pose_bones) THEN Len(groups)
                             ELSE pbone_group[armature][i]]]

\* ADH_CreateBoneGroup.execute.  An active object that is no armature has no
\* pose: AttributeError at pose.bone_groups.
CreateBoneGroup_execute ==
    /\ CreateBoneGroup_poll
    /\ \E theme \in random_theme :
          LET obj == active_object
              bone_name == bones[pose_object][active_pose_bone].name
              found == {g \in 1..Len(bone_groups[obj]) :
                           bone_groups[obj][g].name = bone_name}
              first == CHOOSE g \in found : \A h \in found : g <= h
              assigned == pose_group_assign(obj)
          IN  /\ op_arg' = <<theme>>
              /\ IF ob_type[obj] # "ARMATURE"
                 THEN /\ op_ret' = "AttributeError"
                      /\ UNCHANGED <<bone_groups, bg_active, pbone_group>>
                 ELSE IF found # {}
                 THEN /\ bg_active' = [bg_active EXCEPT ![obj] = first]
                      /\ bone_groups' = [bone_groups EXCEPT ![obj][first].color_set = theme]
                      /\ op_ret' = "FINISHED"
                      /\ UNCHANGED pbone_group
                 ELSE /\ bg_active' = [bg_active EXCEPT ![obj] = assigned.active]
                      /\ bone_groups' = [bone_groups EXCEPT ![obj] =
                             [assigned.bone_groups EXCEPT
                                 ![assigned.active].name = bone_name,
                                 ![assigned.active].color_set = theme]]
                      /\ pbone_group' = [pbone_group EXCEPT ![obj] = assigned.pbone_group]
                      /\ op_ret' = "FINISHED"
    /\ op' = "create_bone_group"
    /\ UNCHANGED <<ob_type, ob_select, active_object, ob_mode, modifiers, shape_keys,
                   vertex_groups, vg_active, vert_select, vgroup_weight>>
    /\ UNCHANGED rigVars
    /\ UNCHANGED <<active_bone, ob_data, ob_layers, ob_draw_type>>
    /\ UNCHANGED <<pasteVars, driverVars>>

\* The pose scene, no bone with a custom shape
BoneGroupsInit ==
    /\ PoseInit
    /\ \A i \in 1..Len(bones[1]) : bones[1][i].custom_shape = NoObject

BoneGroupsNext ==
    \/ CreateBoneGroup_execute
    \/ HostSelect
    \/ HostSelectBone

SpecBoneGroupsInit == PasteIdle /\ DriverIdle /\ BoneGroupsInit

SpecBoneGroups == SpecBoneGroupsInit /\ [][BoneGroupsNext]_vars

\* C17: after Create Bone Group the pose of the active object has a bone group
\* named after the active pose bone, that group is the active one, and every
\* selected pose bone is in it.
C17_CreateBoneGroup ==
    [][ (op' = "create_bone_group") =>
          LET obj == active_object
              bone_name == bones[pose_object][active_pose_bone].name
              active == bg_active'[obj]
          IN  /\ op_ret' = "FINISHED"
              /\ active \in 1..Len(bone_groups'[obj])
              /\ bone_groups'[obj][active].name = bone_name
              /\ \A i \in Range(selected_pose_bones) : pbone_group'[obj][i] = active
      ]_vars

(***************************************************************************)
(*                  ADH_RemoveVertexGroupsUnselectedBones                  *)
(***************************************************************************)

\* Bound: vertex groups of the second mesh of the pose scene at the start.
MaxBoneVGroups == 3

\* ADH_RemoveVertexGroupsUnselectedBones.poll
RemoveVertexGroupsUnselectedBones_poll ==
    active_object # NoObject /\ selected_pose_bones # None

\* vg.name as a string, for a group whose base is one character
vg_name(g) ==
    IF g.name[2] = 0 THEN <<g.name[1]>>
    ELSE <<g.name[1], ".">>
         \o (IF g.name[2] < 10 THEN <<"0", "0">>
             ELSE IF g.name[2] < 100 THEN <<"0">> ELSE <<>>)
         \o str(g.name[2])

\* The test of line 1009: the group is kept
vg_kept(g, bone_names) == vg_name(g) \in bone_names \/ g.lock_weight

\* ADH_RemoveVertexGroupsUnselectedBones.execute, lines 1008-1010, for one
\* object: the groups and the active index the loop can leave, the iteration
\* being at position i.  A group that is removed is the element the iterator
\* refers to, and the loop goes on as NextAfterRemoval says.
RECURSIVE remove_unselected_from(_, _, _)
remove_unselected_from(vgs, i, bone_names) ==
    IF i > Len(vgs.groups) THEN {vgs}
    ELSE IF ~vg_kept(vgs.groups[i], bone_names)
    THEN LET removed == [groups |-> RemoveAt(vgs.groups, i),
                         active |-> active_index_after_remove(vgs.active, i,
                                                              Len(vgs.groups))]
         IN  UNION {remove_unselected_from(removed, j, bone_names) :
                        j \in NextAfterRemoval(removed.groups, i)}
    ELSE remove_unselected_from(vgs, i + 1, bone_names)

\* ADH_RemoveVertexGroupsUnselectedBones.execute
RemoveVertexGroupsUnselectedBones_execute ==
    /\ RemoveVertexGroupsUnselectedBones_poll
    /\ LET bone_names == {bones[pose_object][i].name : i \in Range(selected_pose_bones)}
           affected_objects == {o \in ob_select : ob_type[o] = "MESH"}
           outcomes(o) ==
               IF o \in affected_objects
               THEN remove_unselected_from([groups |-> vertex_groups[o],
                                            active |-> vg_active[o]], 1, bone_names)
               ELSE {[groups |-> vertex_groups[o], active |-> vg_active[o]]}
       IN  \E left \in {f \in [Objects -> UNION {outcomes(o) : o \in Objects}] :
                           \A o \in Objects : f[o] \in outcomes(o)} :
              /\ vertex_groups' = [o \in Objects |-> left[o].groups]
              /\ vg_active' = [o \in Objects |-> left[o].active]
    /\ op' = "remove_vertex_groups_unselected_bones"
    /\ op_arg' = <<>>
    /\ op_ret' = "FINISHED"
    /\ UNCHANGED <<ob_type, ob_select, active_object, ob_mode, modifiers, shape_keys,
                   vert_select, vgroup_weight>>
    /\ UNCHANGED rigVars
    /\ UNCHANGED poseVars
    /\ UNCHANGED <<pasteVars, driverVars>>

\* The vertex groups a mesh has after automatic weights and some work: groups
\* named after bones and another group, in any order, any of them locked
BoneVGroupSeqs ==
    LET names == {<<"a", 0>>, <<"b", 0>>, <<"c", 0>>}
        group(n, lock) == [name |-> n, lock_weight |-> lock,
                           w |-> [v \in Verts |-> NoWeight]]
        seqs[k \in 0..MaxBoneVGroups] ==
            IF k = 0 THEN {<<>>}
            ELSE seqs[k - 1] \cup
                 {Append(gs, group(n, lock)) :
                     gs \in {x \in seqs[k - 1] : Len(x) = k - 1},
                     n \in {y \in names : TRUE}, lock \in BOOLEAN}
    IN  {gs \in seqs[MaxBoneVGroups] :
            \A i, j \in 1..Len(gs) : i # j => gs[i].name # gs[j].name}

\* The pose scene, no bone with a custom shape; the first mesh has the groups
\* 'a' and 'c', the second any groups
VertexGroupsInit ==
    /\ \E gs \in BoneVGroupSeqs :
          PoseScene([o \in PoseObjects |->
                        CASE o = 2 -> <<[name |-> <<"a", 0>>, lock_weight |-> FALSE,
                                         w |-> [v \in Verts |-> NoWeight]],
                                        [name |-> <<"c", 0>>, lock_weight |-> FALSE,
                                         w |-> [v \in Verts |-> NoWeight]]>>
                          [] o = 3 -> gs
                          [] OTHER -> <<>>])
    /\ \A i \in 1..Len(bones[1]) : bones[1][i].custom_shape = NoObject

VertexGroupsNext ==
    \/ RemoveVertexGroupsUnselectedBones_execute
    \/ HostSelect
    \/ HostSelectBone

SpecVertexGroupsInit == PasteIdle /\ DriverIdle /\ VertexGroupsInit

SpecVertexGroups == SpecVertexGroupsInit /\ [][VertexGroupsNext]_vars

generate_increment_dict_step == dr_pc = "generate" /\ gen_iters' = gen_iters + 1

\* The same for the loop of substitute_incremented.
substitute_incremented_step == dr_pc = "substitute" /\ sub_iters' = sub_iters + 1

\* Both loops are plain `while True:` loops of a synchronous function: once
\* the function is entered, the interpreter runs each iteration to its end
\* and then the next, so a loop that is waiting for its next iteration
\* eventually gets it.
SpecDriverLive ==
    /\ SpecDriverInit
    /\ [][DriverNext]_vars
    /\ WF_gen_iters(generate_increment_dict_step)
    /\ WF_sub_iters(substitute_incremented_step)

\* An iteration of generate_increment_dict that does not stop moves start_pos
\* strictly forward, to the end of a non-empty match inside the string.
generate_advances ==
    (dr_pc = "generate" /\ dr_pc' = "generate") =>
        LET match_obj == increment_dict_re_search(idx_str, gen_start_pos)
        IN  /\ match_obj # NoMatch
            /\ gen_start_pos <= match_obj.start
            /\ match_obj.start < match_obj.end
            /\ match_obj.end <= Len(idx_str)
            /\ gen_start_pos' = match_obj.end
            /\ gen_start_pos' > gen_start_pos

\* The same for an iteration of substitute_incremented.
substitute_advances ==
    (dr_pc = "substitute" /\ dr_pc' = "substitute") =>
        LET match_obj == int_re_search(expression, sub_start_pos)
        IN  /\ match_obj # NoMatch
            /\ sub_start_pos <= match_obj.start
            /\ match_obj.start < match_obj.end
            /\ match_obj.end <= Len(expression)
            /\ sub_start_pos' = match_obj.end
            /\ sub_start_pos' > sub_start_pos

\* C19 as stated: neither loop runs more iterations than its string has
\* characters, the iteration that finds no match and stops included.
C19_AsStated ==
    /\ gen_iters <= Len(idx_str)
    /\ sub_iters <= Len(expression)

\* C19: generate_increment_dict and substitute_incremented terminate on every
\* input string: each iteration either stops or moves start_pos strictly
\* forward to the end of a non-empty match, so each scan is one left-to-right
\* pass in which at most as many iterations as the string has characters
\* advance, followed by the one iteration that finds no match and stops.
C19_Termination ==
    /\ [][generate_advances /\ substitute_advances]_vars
    /\ [](gen_iters <= Len(idx_str) + 1 /\ sub_iters <= Len(expression) + 1)
    /\ [](dr_pc = "generate" => gen_iters <= gen_start_pos)
    /\ [](dr_pc = "substitute" => sub_iters <= sub_start_pos)
    /\ (dr_pc = "generate") ~> (dr_pc = "keyables")
    /\ (dr_pc = "substitute") ~> (dr_pc = "copied")

\* C19 witness: substitute_incremented has returned from a three-character
\* expression after two matches and the iteration that found none.
C19_Witness ==
    /\ dr_pc = "copied"
    /\ Len(expression) = 3
    /\ sub_iters = 3
    /\ sub_start_pos = 3

=============================================================================
